---- MODULE Spec2Model ----
(***************************************************************************)
(* Job polling and client-side-build (human-in-the-loop) orchestration of  *)
(* the code transformation feature: pollTransformationJob and the          *)
(* AWAITING_CLIENT_ACTION sub-protocol of transformApiHandler.ts.          *)
(*                                                                         *)
(* One step of the model is the code that runs between two awaits.  The    *)
(* poll flow is one sequential process; every runClientSideBuild call      *)
(* starts a task (the async callback handed to telemetry.run, which is not *)
(* awaited) that runs concurrently with the poll flow.  The backend and    *)
(* the user are nondeterministic.                                          *)
(***************************************************************************)
EXTENDS Integers, Sequences, FiniteSets, Bags, TLC

\* ------------------------------------------------------------------ bounds
\* polling intervals that fit in the time budget of one pollTransformationJob call
MaxPolls == 3
\* client-action rounds the backend signals
MaxRounds == 1
\* runClientSideBuild callbacks in flight at the same time
MaxTasks == 2
\* event handlers of the conversation controller suspended at the same time
MaxHandlers == 2
\* stop requests of the user
MaxStops == 1
\* files of a source tree or of a dependency tree
MaxFiles == 2

\* --------------------------------------------------------------- constants
transformationJobPollingIntervalSeconds == 5
transformationJobTimeoutSeconds == MaxPolls * transformationJobPollingIntervalSeconds

Statuses == {"SUBMITTED", "PLANNING", "TRANSFORMING", "COMPLETED", "PAUSED", "FAILED", "STOPPED"}
validStatesForComplete == {"COMPLETED"}
validStatesForPlanGenerated == {"TRANSFORMING", "COMPLETED"}
validStatesForCheckingDownloadUrl == {"COMPLETED", "FAILED", "STOPPED"}
pausedStates == {"PAUSED"}
failureStates == {"FAILED", "STOPPED"}
\* the validStates arguments the callers of pollTransformationJob pass
CallerValidStates == {validStatesForComplete, validStatesForPlanGenerated, validStatesForCheckingDownloadUrl}

NotStarted == "Not Started"
WaitingUserInput == "WaitingUserInput"
VerifyEachIteration == "Verify Each Iteration"
Selections == {VerifyEachIteration, "Auto"}

NoRequest == <<"none", 0>>
\* the request id of a plan or upload-URL response
OtherRequest == <<"other", 0>>
\* the status sequence of the documented polling example
ExampleStatuses == <<"SUBMITTED", "PLANNING", "TRANSFORMING", "COMPLETED">>
\* spawnResult.status: 0 of a passing build, another number of a failing build, or null
\* when the subprocess could not be run or was killed by a signal
ExitCodes == {"0", "1", "null"}

\* ------------------------------------------------------------------- state
VARIABLES
    cancelled,              \* transformByQState.isCancelled()
    polledJobStatus,        \* transformByQState.getPolledJobStatus()
    waitingAuth,            \* transformByQState.getWaitingForClientSideBuildAuthorization()
    selection,              \* transformByQState.getClientSideBuildSelection()
    jobFailureMetadata,     \* request id kept by transformByQState.setJobFailureMetadata
    pc,                     \* position of the poll flow
    validStates,            \* argument of the running pollTransformationJob call
    status,                 \* local `status` of pollTransformationJob
    timer,                  \* local `timer` of pollTransformationJob
    outcome,                \* how the last pollTransformationJob call ended
    errRequestId,           \* requestId carried by the thrown JobStoppedError
    artifactId,             \* transformationStatus.ClientInstructionArtifactId of the running sub-protocol
    tasks,                  \* the un-awaited runClientSideBuild callbacks in flight (a bag)
    hilArtifact,            \* backend: artifact id of the pending client action, 0 when none
    rounds,                 \* backend: number of client-action rounds signalled so far
    matched,                \* history: the running call has observed exactly the first `matched` statuses of ExampleStatuses (-1: it has not)
    getCalls,               \* history: getTransformation calls issued by the running call
    lastFetched,            \* history: status fetched by the last observation of the job
    invoked                 \* history: processAwaitingClientActionStatus invocations of the running poll iteration

tbq == <<cancelled, polledJobStatus, waitingAuth, selection, jobFailureMetadata>>
pollLocals == <<pc, validStates, status, timer, outcome, errRequestId, artifactId>>
backend == <<hilArtifact, rounds>>
pollHist == <<matched, getCalls, lastFetched, invoked>>
pollRest == <<pollLocals, tasks, backend, pollHist>>

\* ------------------------------------- state of the conversation controller
VARIABLES
    conversationState,      \* sessionStorage.getSession().conversationState
    handlers,               \* the controller's event handlers suspended at an await (a bag of positions)
    formShown,              \* the project form was sent to the chat tab and not cleared
    raised,                 \* the error the last failed handler re-raised, "none" when none did
    hilFailureMessage,      \* the job-finished message continueTransformationWithoutHIL sent, "" when none
    isAuthenticating,       \* session.isAuthenticating: the user was asked to authenticate again
    stopRequests,           \* history: STOP_TRANSFORMATION_JOB clicks handled
    backendStops,           \* history: codeModernizerStopCodeTransformation calls made
    stopFailures,           \* history: backend stop calls that failed
    postRuns,               \* history: postTransformationJob calls made
    cleanupRuns             \* history: cleanupTransformationJob calls made

VARIABLES
    jobId                   \* transformByQState.getJobId(), "" until the project is uploaded

\* -------------------------------------------------- state of a zipCode call
VARIABLES
    zipPc,                  \* position of the zipCode call
    zipParams,              \* its arguments: dependenciesFolder, humanInTheLoopFlag
    zipTodo,                \* the files the running walk has not visited yet
    zipEntries,             \* the entry names of `zip`, in the order they were added
    zipSize,                \* zipSize, -1 before the archive was measured
    zipOutcome              \* what the call returned or threw, <<"none">> while it runs

zipVars == <<zipPc, zipParams, zipTodo, zipEntries, zipSize, zipOutcome>>

\* ------------------------------------- state of a call of a backend wrapper
VARIABLES
    apiOp,                  \* the wrapper that was called: uploadPayload, startJob, ...
    apiPc,                  \* the await the call is suspended at
    uploadContext,          \* uploadPayload was given an uploadContext
    uploadId,               \* response.uploadId of createUploadUrl, "" before the response
    attempts,               \* history: requests the call has sent, per backend operation
    apiOutcome              \* what the call returned or threw, <<"none">> while it runs

apiVars == <<apiOp, apiPc, uploadContext, uploadId, attempts, apiOutcome>>

\* --------------------------------------------- the reason of a job's failure
VARIABLES
    reason,                         \* transformationJob.reason of the last status response
    jobFailureErrorChatMessage,     \* transformByQState's message for the chat
    jobFailureErrorNotification     \* transformByQState's message for the notification

reasonVars == <<reason, jobFailureErrorChatMessage, jobFailureErrorNotification>>

\* ------------------------------------------------ state of project validation
VARIABLES
    workspaceFolders,       \* vscode.workspace.workspaceFolders at the last getOpenProjects call
    valPc,                  \* position of the validation: idle, opened, done
    openProjects,           \* the list getOpenProjects returned
    validProjects,          \* the list validateOpenProjects returned
    valOutcome,             \* "none", "returned", or the name of the error thrown
    valNotified             \* noPomXmlOrBuildGradleFoundNotification was shown

valVars == <<workspaceFolders, valPc, openProjects, validProjects, valOutcome, valNotified>>

\* -------------------------------- state of a prepareProjectDependencies call
VARIABLES
    buildSystem,            \* transformByQState.getBuildSystem() of the running call
    buildPc,                \* position of the call: idle, log (the build log is being opened), done
    buildRuns,              \* history: the commands the call has run, in order
    buildFailed,            \* history: the commands that ended with a non-zero status
    buildErr,               \* the error caught by the handler that opens the build log
    buildOutcome,           \* "none", "succeeded", or the message of the error thrown
    buildNotices            \* the notifications shown to the user

buildVars == <<buildSystem, buildPc, buildRuns, buildFailed, buildErr, buildOutcome, buildNotices>>

\* ------------------------------------ state of the manifest of a zipCode call
VARIABLES
    manPc,                  \* idle, written (manifest.json is in the archive), loaded
    manArgs,                \* the inputs of the call: build system, dependencies folder, its files
    zipManifest,            \* the zipManifest object of the call, as zipCode leaves it
    manifestJson,           \* the text of manifest.json in the archive: its members, in order
    loadedManifest          \* the object loadManifestFile returned

manVars == <<manPc, manArgs, zipManifest, manifestJson, loadedManifest>>

stopHist == <<stopRequests, backendStops, stopFailures, postRuns, cleanupRuns>>
ctlVars ==
    <<conversationState, handlers, formShown, raised, hilFailureMessage, isAuthenticating, stopHist>>

\* the variables the poll flow leaves alone
others == <<ctlVars, jobId, zipVars, apiVars, reasonVars,
      valVars,
      buildVars,
      manVars>>
\* the variables the conversation controller leaves alone
ctlFrame == <<polledJobStatus, waitingAuth, selection, pollRest, zipVars, apiVars, reasonVars,
      valVars,
      buildVars,
      manVars>>
\* the variables zipCode leaves alone
zipFrame == <<polledJobStatus, waitingAuth, selection, jobFailureMetadata, pollRest, handlers,
              formShown, raised, hilFailureMessage, isAuthenticating, stopHist, jobId, apiVars,
              reasonVars,
      valVars,
      buildVars,
      manVars>>
\* the variables the backend wrappers leave alone
apiFrame == <<polledJobStatus, waitingAuth, selection, pollRest, ctlVars, zipVars, reasonVars,
      valVars,
      buildVars,
      manVars>>
vars == <<tbq, pollLocals, tasks, backend, pollHist, others>>

ArtifactIds == 1..MaxRounds
\* an artifact id of a progress update that is not a pending client action
OtherArtifact == MaxRounds + 1

\* ----------------------------------------------------------------- helpers
\* variant of throwIfCancelled: the cancellation flag is not consulted
throwIfCancelled_Never == FALSE

\* lines 72-76
throwIfCancelled == cancelled

\* variant of IsValidState: the failure test is made before the validStates test
IsValidState_AfterFailure(s, vs) == s \in vs /\ s \notin failureStates

\* variant of IsValidState: the validStates test is made after the plan-generated test
IsValidState_AfterPlanGenerated(s, vs) == s \in vs /\ s \notin validStatesForPlanGenerated

\* line 644: validStates.includes(status)
IsValidState(s, vs) == s \in vs

\* variant of ShouldProcessClientAction: the plan-generated test is dropped
ShouldProcessClientAction_AnyStatus(s, w) == ~w

ShouldProcessClientAction_IgnoreFlag(s, w) == s \in validStatesForPlanGenerated

\* lines 648-651
ShouldProcessClientAction(s, w) == s \in validStatesForPlanGenerated /\ ~w

\* variant of IsPausedState: the paused test is dropped
IsPausedState_Never(s) == FALSE

\* line 660
IsPausedState(s) == s \in pausedStates

\* variant of IsFailureState: only FAILED is treated as a failure
IsFailureState_OnlyFailed(s) == s = "FAILED"

\* line 668
IsFailureState(s) == s \in failureStates

\* line 607
StatusChanged(s, polled) == s # polled

\* variant of TimedOut: the budget is used up when the timer reaches it
TimedOut_AtBudget(t) == t >= transformationJobTimeoutSeconds

\* variant of TimedOut: the budget is compared in milliseconds
TimedOut_Milliseconds(t) == t > transformationJobTimeoutSeconds * 1000

\* line 674
TimedOut(t) == t > transformationJobTimeoutSeconds

ConversationStates ==
    {"IDLE", "PROMPT_JAVA_HOME", "PROMPT_JAVA_TARGET", "COMPILING", "JOB_SUBMITTED", "WAITING_FOR_INPUT"}

\* a new session: no flow started, no handler running
CtlInit ==
    /\ conversationState = "IDLE"
    /\ handlers = EmptyBag
    /\ formShown = FALSE
    /\ raised = "none"
    /\ hilFailureMessage = ""
    /\ isAuthenticating = FALSE
    /\ stopRequests = 0
    /\ backendStops = 0
    /\ stopFailures = 0
    /\ postRuns = 0
    /\ cleanupRuns = 0
    /\ jobId = ""

\* an absent folder argument
Undefined == [kind |-> "undefined", files |-> <<>>]
NoParams == [dependenciesFolder |-> Undefined, humanInTheLoopFlag |-> FALSE]

\* no zipCode call was made
ZipInit ==
    /\ zipPc = "idle"
    /\ zipParams = NoParams
    /\ zipTodo = <<>>
    /\ zipEntries = <<>>
    /\ zipSize = -1
    /\ zipOutcome = <<"none">>

\* the backend operations the wrappers call
BackendOps ==
    {"createUploadUrl", "put", "startTransformation", "resumeTransformation", "stopTransformation"}

NoAttempts == [op \in BackendOps |-> 0]

\* no wrapper was called
ApiInit ==
    /\ apiOp = "none"
    /\ apiPc = "idle"
    /\ uploadContext = FALSE
    /\ uploadId = ""
    /\ attempts = NoAttempts
    /\ apiOutcome = <<"none">>

\* a response without transformationJob.reason
NoReason == [defined |-> FALSE, text |-> <<>>]

\* no status response has arrived, no failure message is stored
ReasonInit ==
    /\ reason = NoReason
    /\ jobFailureErrorChatMessage = <<>>
    /\ jobFailureErrorNotification = <<>>

\* vscode.workspace.workspaceFolders when no workspace is open
NoFolders == [defined |-> FALSE, list |-> <<>>]

\* no validation has run
ValInit ==
    /\ workspaceFolders = NoFolders
    /\ valPc = "idle"
    /\ openProjects = <<>>
    /\ validProjects = <<>>
    /\ valOutcome = "none"
    /\ valNotified = FALSE

\* no local build has run
BuildInit ==
    /\ buildSystem = "none"
    /\ buildPc = "idle"
    /\ buildRuns = <<>>
    /\ buildFailed = {}
    /\ buildErr = "none"
    /\ buildOutcome = "none"
    /\ buildNotices = {}

\* a value that is undefined
UndefinedValue == [type |-> "undefined", v |-> <<>>]

\* an object without properties
EmptyObject == [k \in {} |-> UndefinedValue]

\* no manifest has been written
ManInit ==
    /\ manPc = "idle"
    /\ manArgs = [buildSystem |-> "none", dependenciesFolder |-> "undefined", dependencyFiles |-> FALSE]
    /\ zipManifest = EmptyObject
    /\ manifestJson = <<>>
    /\ loadedManifest = EmptyObject

Init ==
    /\ ManInit
    /\ BuildInit
    /\ ValInit
    /\ CtlInit
    /\ ZipInit
    /\ ApiInit
    /\ ReasonInit
    /\ cancelled = FALSE
    /\ polledJobStatus = NotStarted
    /\ waitingAuth = FALSE
    /\ selection \in Selections
    /\ jobFailureMetadata = NoRequest
    /\ pc = "idle"
    /\ validStates = {}
    /\ status = ""
    /\ timer = 0
    /\ outcome = "none"
    /\ errRequestId = NoRequest
    /\ artifactId = 0
    /\ tasks = EmptyBag
    /\ hilArtifact = 0
    /\ rounds = 0
    /\ matched = 0
    /\ getCalls = 0
    /\ lastFetched = ""
    /\ invoked = 0

\* ------------------------------------------------- pollTransformationJob
\* the callers poll a new job, and poll again after a call returned normally unless it
\* returned a failure status (the job is then finalized)
CallerPolls ==
    \/ pc = "idle"
    \/ pc = "done" /\ outcome = "returned" /\ status \notin failureStates

\* lines 593-596: a poll call starts
StartPoll(vs) ==
    /\ CallerPolls
    /\ pc' = "loopTop"
    /\ validStates' = vs
    /\ status' = ""
    /\ timer' = 0
    /\ outcome' = "none"
    /\ matched' = 0
    /\ getCalls' = 0
    /\ invoked' = 0
    /\ UNCHANGED <<tbq, errRequestId, artifactId, tasks, backend, lastFetched>>
    /\ UNCHANGED others

\* lines 597-601: cancellation check, then the status call is issued
PollLoopTop ==
    /\ pc = "loopTop"
    /\ IF throwIfCancelled
          THEN /\ pc' = "done"
               /\ outcome' = "TransformByQStoppedError"
               /\ getCalls' = getCalls
               /\ invoked' = invoked
          ELSE /\ pc' = "awaitStatus"
               /\ outcome' = outcome
               /\ getCalls' = getCalls + 1
               /\ invoked' = 0
    /\ UNCHANGED <<tbq, validStates, status, timer, errRequestId, artifactId, tasks, backend,
                   matched, lastFetched>>
    /\ UNCHANGED others

\* lines 660-676 up to the next await: paused exit, failure throw, or the sleep of line 672
AfterClientAction(s, rid, polledNow, metaNow) ==
    IF IsPausedState(s)
      THEN /\ polledJobStatus' = WaitingUserInput
           /\ pc' = "done"
           /\ outcome' = "returned"
           /\ jobFailureMetadata' = metaNow
           /\ errRequestId' = errRequestId
      ELSE IF IsFailureState(s)
        THEN /\ jobFailureMetadata' = rid
             /\ errRequestId' = rid
             /\ pc' = "done"
             /\ outcome' = "JobStoppedError"
             /\ polledJobStatus' = polledNow
        ELSE /\ pc' = "sleep672"
             /\ outcome' = outcome
             /\ polledJobStatus' = polledNow
             /\ jobFailureMetadata' = metaNow
             /\ errRequestId' = errRequestId

\* response.$response.requestId of the last status response of the running call
LastRequestId == <<"GetTransformation", getCalls>>

\* backend: a status response can carry transformationJob.reason, the reason of the job's
\* failure, when its status is a failure status
ReasonPossible(s) == s \in failureStates

\* lines 602-663: the status response arrives and is processed up to the next await;
\* hasReason: the response carries transformationJob.reason (lines 618-643)
GetTransformationResponse(s, hasReason) ==
    /\ pc = "awaitStatus"
    /\ hasReason => ReasonPossible(s)
    /\ status' = s
    /\ matched' = IF matched >= 0 /\ matched < Len(ExampleStatuses) /\ ExampleStatuses[matched + 1] = s
                     THEN matched + 1 ELSE -1
    /\ lastFetched' = s
    /\ LET rid == LastRequestId
           meta == IF hasReason THEN rid ELSE jobFailureMetadata
       IN  IF IsValidState(s, validStates)
             THEN /\ pc' = "done"
                  /\ outcome' = "returned"
                  /\ polledJobStatus' = s
                  /\ jobFailureMetadata' = meta
                  /\ errRequestId' = errRequestId
             ELSE IF ShouldProcessClientAction(s, waitingAuth)
               THEN /\ pc' = "sleep653"
                    /\ outcome' = outcome
                    /\ polledJobStatus' = s
                    /\ jobFailureMetadata' = meta
                    /\ errRequestId' = errRequestId
               ELSE AfterClientAction(s, rid, s, meta)
    /\ UNCHANGED <<cancelled, waitingAuth, selection, validStates, timer, artifactId, tasks,
                   backend, getCalls, invoked>>
    /\ UNCHANGED others

\* lines 677-682: the status call fails, the error is logged and rethrown
GetTransformationFailed ==
    /\ pc = "awaitStatus"
    /\ pc' = "done"
    /\ outcome' = "GetTransformationError"
    /\ UNCHANGED <<tbq, validStates, status, timer, errRequestId, artifactId, tasks, backend,
                   pollHist>>
    /\ UNCHANGED others

\* lines 672-676
PollSleep ==
    /\ pc = "sleep672"
    /\ timer' = timer + transformationJobPollingIntervalSeconds
    /\ IF TimedOut(timer')
          THEN pc' = "done" /\ outcome' = "JobTimedOut"
          ELSE pc' = "loopTop" /\ outcome' = outcome
    /\ UNCHANGED <<tbq, validStates, status, errRequestId, artifactId, tasks, backend, pollHist>>
    /\ UNCHANGED others

\* ------------------------------------------- transformation plan (backend)
AwaitingClientAction == "AWAITING_CLIENT_ACTION"
ClientInstructions == "CLIENT_INSTRUCTIONS"
NoUpdate == [status |-> "undefined", artifactType |-> "none", artifactId |-> 0]

\* the progress updates of a plan, in step order; artifactType "none" and
\* artifactId 0 stand for an absent downloadArtifacts[0] field
ProgressUpdateSet(a) ==
    [status : {"COMPLETED"}, artifactType : {"none", "LOGS"}, artifactId : {0, OtherArtifact}]
    \cup (IF a = 0 THEN {}
          ELSE [status : {AwaitingClientAction},
                artifactType : {"none", ClientInstructions, "LOGS"},
                artifactId : {0, a}])

\* plans the backend can return while client action `a` is pending (0: none):
\* at most one progress update signals AWAITING_CLIENT_ACTION
Plans(a) ==
    {p \in {<<>>} \cup {<<u>> : u \in ProgressUpdateSet(a)}
              \cup {<<u, v>> : u \in ProgressUpdateSet(a), v \in ProgressUpdateSet(a)} :
        /\ Cardinality({i \in DOMAIN p : p[i].status = AwaitingClientAction}) <= 1
        /\ a # 0 => \E i \in DOMAIN p : p[i].status = AwaitingClientAction}

\* lines 696-718
findDownloadArtifactStep(plan) ==
    LET hits == {j \in DOMAIN plan :
                    \/ plan[j].artifactType # "none"
                    \/ (plan[j].artifactId # 0 /\ plan[j].status = AwaitingClientAction)}
    IN  IF hits = {} THEN NoUpdate
        ELSE plan[CHOOSE j \in hits : \A k \in hits : j <= k]

\* --------------------------------------- processAwaitingClientActionStatus
\* lines 653-654, 790: the sleep ends, the sub-protocol is entered and checks cancellation
ProcessAwaitingClientActionStatus ==
    /\ pc = "sleep653"
    /\ invoked' = invoked + 1
    /\ IF throwIfCancelled
          THEN pc' = "done" /\ outcome' = "TransformByQStoppedError"
          ELSE pc' = "sleep791" /\ outcome' = outcome
    /\ UNCHANGED <<tbq, validStates, status, timer, errRequestId, artifactId, tasks, backend,
                   matched, getCalls, lastFetched>>
    /\ UNCHANGED others

\* lines 791-803, 818-844, 578-585: the sleeps end, the plan is fetched (the call and its
\* response are one step) and searched for the pending client action
GetClientInstructionArtifactId(plan) ==
    /\ pc = "sleep791"
    /\ LET pu == findDownloadArtifactStep(plan)
           meta == OtherRequest
       IN  IF pu.status = AwaitingClientAction
             THEN /\ polledJobStatus' = polledJobStatus
                  /\ jobFailureMetadata' = meta
                  /\ errRequestId' = errRequestId
                  /\ IF pu.artifactType # ClientInstructions
                       THEN /\ pc' = "done"
                            /\ outcome' = "UnexpectedDownloadArtifactType"
                            /\ artifactId' = artifactId
                       ELSE IF pu.artifactId = 0
                         THEN /\ pc' = "done"
                              /\ outcome' = "FailedToGetClientInstructionArtifactId"
                              /\ artifactId' = artifactId
                         ELSE /\ pc' = "sleep803"
                              /\ outcome' = outcome
                              /\ artifactId' = pu.artifactId
             ELSE /\ AfterClientAction(status, LastRequestId, polledJobStatus, meta)
                  /\ artifactId' = artifactId
    /\ UNCHANGED <<cancelled, waitingAuth, selection, validStates, status, timer, tasks, backend,
                   pollHist>>
    /\ UNCHANGED others

\* lines 586-590: the plan call fails and the error is rethrown
GetTransformationStepsFailed ==
    /\ pc = "sleep791"
    /\ pc' = "done"
    /\ outcome' = "GetTransformationPlanError"
    /\ UNCHANGED <<tbq, validStates, status, timer, errRequestId, artifactId, tasks, backend,
                   pollHist>>
    /\ UNCHANGED others

\* lines 803-807, 881-898, 748-771, 845-854: the sleep ends, the client instructions are
\* downloaded and extracted and their manifest is parsed
ExtractClientInstructions(ok) ==
    /\ pc = "sleep803"
    /\ IF ok
          THEN pc' = "sleep810" /\ outcome' = outcome
          ELSE pc' = "done" /\ outcome' = "ExtractClientInstructionsError"
    /\ UNCHANGED <<tbq, validStates, status, timer, errRequestId, artifactId, tasks, backend,
                   pollHist>>
    /\ UNCHANGED others

\* lines 810-814, 900-910: copying the project or applying the patch throws
ProcessClientInstructionsFailed ==
    /\ pc = "sleep810"
    /\ pc' = "done"
    /\ outcome' = "ProcessClientInstructionsFailed"
    /\ UNCHANGED <<tbq, validStates, status, timer, errRequestId, artifactId, tasks, backend,
                   pollHist>>
    /\ UNCHANGED others

\* lines 933-946: the callback reaches the authorization dialog
NeedsAuthorization(sel, w) == sel = VerifyEachIteration /\ ~w

NewTask(p, a) == [pc |-> p, artifact |-> a]

\* the callback t ends (resolved or rejected; nothing awaits its promise)
TaskEnds(t) == tasks' = tasks (-) SetToBag({t})

\* the callback t suspends at its next await
TaskMoves(t, p) == tasks' = (tasks (-) SetToBag({t})) (+) SetToBag({NewTask(p, t.artifact)})

\* lines 810-811, 900-917, 920-980: the patch is applied and shown, runClientSideBuild starts
\* its callback, which runs up to its first await (the authorization dialog, or the build
\* log written after the local build ran); the callback is not awaited, so the sub-protocol
\* returns and the poll loop goes on at line 660
RunClientSideBuild ==
    /\ pc = "sleep810"
    /\ BagCardinality(tasks) < MaxTasks
    /\ IF NeedsAuthorization(selection, waitingAuth)
          THEN /\ waitingAuth' = TRUE
               /\ tasks' = tasks (+) SetToBag({NewTask("prompt", artifactId)})
          ELSE /\ waitingAuth' = FALSE
               /\ tasks' = tasks (+) SetToBag({NewTask("writeLogs", artifactId)})
    /\ AfterClientAction(status, LastRequestId, polledJobStatus, jobFailureMetadata)
    /\ artifactId' = 0
    /\ UNCHANGED <<cancelled, selection, validStates, status, timer, backend, pollHist>>
    /\ UNCHANGED others

\* ------------------------------------ stopTransformByQ (startTransformByQ)
\* the job is flagged as cancelled and the backend stop operation is called
stopTransformByQ ==
    /\ cancelled' = TRUE

\* the user asks to stop the job while it is running
UserCancel ==
    /\ pc # "idle"
    /\ ~cancelled
    /\ stopTransformByQ
    /\ UNCHANGED <<polledJobStatus, waitingAuth, selection, jobFailureMetadata, pollLocals,
                   tasks, backend, pollHist>>
    /\ UNCHANGED others

\* --------------------------------- runClientSideBuild: the async callback
\* lines 940-980: the user answers the authorization dialog; on Yes the local build runs
\* (spawnSync) and the callback suspends writing the build log
PromptAnswer(t, choice) ==
    /\ BagIn(t, tasks)
    /\ t.pc = "prompt"
    /\ \/ /\ choice = "No"
          /\ waitingAuth' = FALSE
          /\ stopTransformByQ
          /\ TaskEnds(t)
       \/ /\ choice = "Dismissed"
          /\ waitingAuth' = TRUE
          /\ TaskEnds(t)
          /\ UNCHANGED cancelled
       \/ /\ choice = "Yes"
          /\ waitingAuth' = FALSE
          /\ TaskMoves(t, "writeLogs")
          /\ UNCHANGED cancelled
    /\ UNCHANGED <<polledJobStatus, selection, jobFailureMetadata, pollLocals, backend, pollHist>>
    /\ UNCHANGED others

\* line 982: spawnResult.status !== null
HasExitCode(e) == e # "null"

\* lines 979-1004, 184-193: the build log is written; a null exit code `e` of the build
\* throws, otherwise the result archive (manifest with the exit code, build log) is zipped
\* and uploadPayload checks cancellation and asks for an upload URL for a ClientBuildResult
TaskWriteLogs(t, e) ==
    /\ BagIn(t, tasks)
    /\ t.pc = "writeLogs"
    /\ IF ~HasExitCode(e) \/ throwIfCancelled
          THEN TaskEnds(t)
          ELSE TaskMoves(t, "awaitCreateUrl")
    /\ UNCHANGED <<tbq, pollLocals, backend, pollHist>>
    /\ UNCHANGED others

\* lines 194-205, 115: the upload URL arrives (or the call fails); uploadArtifactToS3
\* checks cancellation and stats the file
TaskCreateUrlResponse(t, ok) ==
    /\ BagIn(t, tasks)
    /\ t.pc = "awaitCreateUrl"
    /\ IF ~ok
          THEN /\ TaskEnds(t)
               /\ jobFailureMetadata' = jobFailureMetadata
          ELSE /\ jobFailureMetadata' = OtherRequest
               /\ IF throwIfCancelled THEN TaskEnds(t) ELSE TaskMoves(t, "awaitPut")
    /\ UNCHANGED <<cancelled, polledJobStatus, waitingAuth, selection, pollLocals, backend,
                   pollHist>>
    /\ UNCHANGED others

ResumeSent_AfterAnyTransfer(putOk) == TRUE

\* lines 1000-1001: resumeTransformationJob is called when uploadPayload returned
ResumeSent(putOk) == putOk

\* lines 117-142, 206-221, 1001, 145-148: the transfer of the archive to the upload URL ends;
\* when it succeeded uploadPayload returns and the job is resumed with COMPLETED
TaskPutResponse(t, putOk) ==
    /\ BagIn(t, tasks)
    /\ t.pc = "awaitPut"
    /\ IF ResumeSent(putOk) THEN TaskMoves(t, "awaitResume") ELSE TaskEnds(t)
    /\ UNCHANGED <<tbq, pollLocals, backend, pollHist>>
    /\ UNCHANGED others

\* lines 149-159: the resume call ends and the callback with it; when the call succeeded the
\* backend leaves the client-action round
TaskResumeResponse(t, resumeOk) ==
    /\ BagIn(t, tasks)
    /\ t.pc = "awaitResume"
    /\ TaskEnds(t)
    /\ hilArtifact' = IF resumeOk /\ hilArtifact = t.artifact THEN 0 ELSE hilArtifact
    /\ UNCHANGED <<tbq, pollLocals, rounds, pollHist>>
    /\ UNCHANGED others

\* ----------------------------------------------------------------- backend
\* the backend pauses the job for a new client-side build round
SignalClientAction ==
    /\ pc # "idle"
    /\ hilArtifact = 0
    /\ rounds < MaxRounds
    /\ rounds' = rounds + 1
    /\ hilArtifact' = rounds + 1
    /\ UNCHANGED <<tbq, pollLocals, tasks, pollHist>>
    /\ UNCHANGED others

\* ------------------------------------------------------------ specification
Next ==
    \/ \E vs \in CallerValidStates : StartPoll(vs)
    \/ PollLoopTop
    \/ \E s \in Statuses, hasReason \in BOOLEAN : GetTransformationResponse(s, hasReason)
    \/ GetTransformationFailed
    \/ PollSleep
    \/ ProcessAwaitingClientActionStatus
    \/ \E plan \in Plans(hilArtifact) : GetClientInstructionArtifactId(plan)
    \/ GetTransformationStepsFailed
    \/ \E ok \in BOOLEAN : ExtractClientInstructions(ok)
    \/ ProcessClientInstructionsFailed
    \/ RunClientSideBuild
    \/ UserCancel
    \/ \E t \in BagToSet(tasks), c \in {"Yes", "No", "Dismissed"} : PromptAnswer(t, c)
    \/ \E t \in BagToSet(tasks), e \in ExitCodes : TaskWriteLogs(t, e)
    \/ \E t \in BagToSet(tasks), ok \in BOOLEAN : TaskCreateUrlResponse(t, ok)
    \/ \E t \in BagToSet(tasks), putOk \in BOOLEAN : TaskPutResponse(t, putOk)
    \/ \E t \in BagToSet(tasks), resumeOk \in BOOLEAN : TaskResumeResponse(t, resumeOk)
    \/ SignalClientAction

Spec == Init /\ [][Next]_vars

\* ------------------------------------------------ conversation controller
\* One handler runs per UI event; the event emitter does not await it, so handlers that are
\* suspended at an await interleave.  A handler is modelled by the await it is suspended at.
HandlerStarts(p) == handlers' = handlers (+) SetToBag({p})
HandlerEnds(p) == handlers' = handlers (-) SetToBag({p})
HandlerMoves(p, q) == handlers' = (handlers (-) SetToBag({p})) (+) SetToBag({q})

\* handlers whose job is compiling ("compile", "auth") or submitted and polled ("start")
JobsInFlight == CopiesIn("compile", handlers) + CopiesIn("auth", handlers) + CopiesIn("start", handlers)

\* lines 425-427
resetTransformationChatFlow == conversationState' = "IDLE"

\* lines 417-423
transformationFinished == resetTransformationChatFlow

\* variant of AlreadyRunning: only a submitted job blocks a new flow
AlreadyRunning_OnlySubmitted(cs) == cs = "JOB_SUBMITTED"

\* lines 197-216: a previous transformation is running
AlreadyRunning(cs) == cs \in {"JOB_SUBMITTED", "COMPILING"}

\* the circumstances of a transform request: the authentication state is asked for only in a
\* workspace with folders, and projects are looked for only by an authenticated session
TransformRequests ==
    {r \in [hasFolders : BOOLEAN, connected : BOOLEAN, hasProjects : BOOLEAN] :
        /\ ~r.hasFolders => r.connected
        /\ ~(r.hasFolders /\ r.connected) => ~r.hasProjects}

\* lines 179-218: what transformInitiated answers: the error of a workspace without folders,
\* the request to authenticate again, the progress message of the running job, or the
\* introduction of a new flow
TransformReply(hasFolders, connected, cs) ==
    IF ~hasFolders THEN "no-project-found"
    ELSE IF ~connected THEN "auth-needed"
    ELSE IF ~AlreadyRunning(cs) THEN "introduction"
    ELSE IF cs = "JOB_SUBMITTED" THEN "job-submitted"
    ELSE "compilation-in-progress"

\* lines 179-230: the transform command is selected; hasFolders: the workspace has folders;
\* connected: the session is authenticated; hasProjects: the workspace has projects that
\* can be transformed, and the project form is sent
TransformInitiated(hasFolders, connected, hasProjects) ==
    /\ LET reply == TransformReply(hasFolders, connected, conversationState)
       IN /\ isAuthenticating' = (isAuthenticating \/ reply = "auth-needed")
          /\ formShown' = IF reply = "introduction" THEN (formShown \/ hasProjects) ELSE formShown
    /\ UNCHANGED <<conversationState, handlers, raised, hilFailureMessage, stopHist, jobId,
                   cancelled, jobFailureMetadata, ctlFrame>>

\* lines 272-276: the "Start a new transformation" button is clicked: the conversation is
\* reset, the chat is cleared and transformInitiated runs
StartNewTransformation(hasFolders, connected, hasProjects) ==
    /\ resetTransformationChatFlow
    /\ LET reply == TransformReply(hasFolders, connected, conversationState')
       IN /\ isAuthenticating' = (isAuthenticating \/ reply = "auth-needed")
          /\ formShown' = (reply = "introduction" /\ hasProjects)
    /\ hilFailureMessage' = ""
    /\ UNCHANGED <<handlers, raised, stopHist, jobId, cancelled, jobFailureMetadata, ctlFrame>>

\* lines 251-253, 257-259, 295-341: the project form (or the build system form) is
\* confirmed; the handler suspends in validateCanCompileProject
FormConfirmed ==
    /\ formShown
    /\ BagCardinality(handlers) < MaxHandlers
    /\ HandlerStarts("validate")
    /\ UNCHANGED <<conversationState, formShown, raised, hilFailureMessage, isAuthenticating,
                   stopHist, jobId,
                   cancelled,
                   jobFailureMetadata, ctlFrame>>

\* variant of ValidationFailedState: every validation failure resets the conversation
ValidationFailedState_Idle(r, cs) == IF r = "ok" THEN "PROMPT_JAVA_TARGET" ELSE "IDLE"

\* lines 389-415, 343-354: the conversation state validateBuildWithPromptOnError leaves,
\* for the result r of validateCanCompileProject and the state cs it found
ValidationFailedState(r, cs) ==
    CASE r = "ok" -> "PROMPT_JAVA_TARGET"
      [] r = "JavaHomeNotSetError" -> "PROMPT_JAVA_HOME"
      [] OTHER -> cs

\* lines 389-415, 343-354: validateCanCompileProject ends
ValidateDone(r) ==
    /\ BagIn("validate", handlers)
    /\ HandlerEnds("validate")
    /\ conversationState' = ValidationFailedState(r, conversationState)
    /\ raised' = IF r = "Error" THEN "validation" ELSE raised
    /\ UNCHANGED <<hilFailureMessage, isAuthenticating, formShown, stopHist, jobId, cancelled,
                   jobFailureMetadata, ctlFrame>>

\* lines 443-480: a chat message arrives; validPath: it names an existing folder
ProcessHumanChatMessage(validPath) ==
    /\ IF conversationState = "PROMPT_JAVA_HOME" /\ validPath
         THEN /\ conversationState' = "PROMPT_JAVA_TARGET"
              /\ UNCHANGED handlers
         ELSE IF conversationState = "PROMPT_JAVA_TARGET" /\ validPath
           THEN /\ BagCardinality(handlers) < MaxHandlers
                /\ conversationState' = "COMPILING"
                /\ HandlerStarts("compile")
           ELSE UNCHANGED <<conversationState, handlers>>
    /\ UNCHANGED <<formShown, raised, hilFailureMessage, isAuthenticating, stopHist, jobId, cancelled,
                   jobFailureMetadata, ctlFrame>>

\* variant of CompileFailedState: the conversation state is not reset
CompileFailedState_Unchanged(cs) == cs

\* line 365
CompileFailedState(cs) == "IDLE"

\* lines 356-369: compileProject ends; when it failed the conversation is reset and the
\* error is thrown again, otherwise the authentication is checked again
CompileDone(ok) ==
    /\ BagIn("compile", handlers)
    /\ IF ok
         THEN /\ HandlerMoves("compile", "auth")
              /\ UNCHANGED <<conversationState, raised>>
         ELSE /\ HandlerEnds("compile")
              /\ conversationState' = CompileFailedState(conversationState)
              /\ raised' = "compile"
    /\ UNCHANGED <<hilFailureMessage, isAuthenticating, formShown, stopHist, jobId, cancelled,
                   jobFailureMetadata, ctlFrame>>

\* lines 371-386: the authentication state arrives; when connected the job is submitted
\* and startTransformByQ is invoked
AuthChecked(connected) ==
    /\ BagIn("auth", handlers)
    /\ IF connected
         THEN /\ conversationState' = "JOB_SUBMITTED"
              /\ HandlerMoves("auth", "start")
         ELSE /\ HandlerEnds("auth")
              /\ UNCHANGED conversationState
    /\ isAuthenticating' = (isAuthenticating \/ ~connected)
    /\ UNCHANGED <<formShown, raised, hilFailureMessage, stopHist, jobId, cancelled,
                   jobFailureMetadata, ctlFrame>>

\* lines 215-217: the job uploads its project and the upload id becomes the job id
JobUploaded ==
    /\ BagIn("start", handlers)
    /\ jobId = ""
    /\ jobId' = "job"
    /\ UNCHANGED <<ctlVars, cancelled, jobFailureMetadata, ctlFrame>>

\* startTransformByQ ends: the job is over (finished, failed or stopped), its post-job step
\* fires transformationFinished, and the call of line 386 returns
StartTransformByQReturns ==
    /\ BagIn("start", handlers)
    /\ HandlerEnds("start")
    /\ transformationFinished
    /\ UNCHANGED <<formShown, raised, hilFailureMessage, isAuthenticating, stopHist, jobId, cancelled,
                   jobFailureMetadata, ctlFrame>>

ErrorKinds ==
    {"AlternateDependencyVersionsNotFoundError", "ModuleUploadError", "JobStartError",
     "TransformationPreBuildError", "PollJobError"}

\* variant of WithoutHILState: the conversation keeps waiting for the user's input
WithoutHILState_Unchanged(cs) == cs

\* line 514: continueTransformationWithoutHIL marks the job as submitted again
WithoutHILState(cs) == "JOB_SUBMITTED"

\* variant of HandledErrorState: every error of the running job resets the conversation
HandledErrorState_AlwaysIdle(kind, cs) == "IDLE"

\* lines 492-514: the conversation state handleError leaves for an error of the running job
HandledErrorState(kind, cs) ==
    CASE kind = "AlternateDependencyVersionsNotFoundError" -> WithoutHILState(cs)
      [] kind \in {"ModuleUploadError", "JobStartError"} -> "IDLE"
      [] OTHER -> cs

\* lines 492-519: the running job reports an error; without alternate dependency versions
\* the job is resumed without a selection (continueTransformationWithoutHIL)
ErrorThrown(kind) ==
    /\ BagIn("start", handlers)
    /\ conversationState' = HandledErrorState(kind, conversationState)
    /\ IF kind = "AlternateDependencyVersionsNotFoundError"
         THEN /\ BagCardinality(handlers) < MaxHandlers
              /\ HandlerStarts("hil")
         ELSE UNCHANGED handlers
    /\ UNCHANGED <<formShown, raised, hilFailureMessage, isAuthenticating, stopHist, jobId, cancelled,
                   jobFailureMetadata, ctlFrame>>

\* lines 429-432: the job asks the user to choose a dependency version
StartHILIntervention ==
    /\ BagIn("start", handlers)
    /\ conversationState' = "WAITING_FOR_INPUT"
    /\ UNCHANGED <<handlers, formShown, raised, hilFailureMessage, isAuthenticating, stopHist,
                   jobId, cancelled,
                   jobFailureMetadata,
                   ctlFrame>>

\* lines 277-283, 482-486, 513-519: the dependency form is confirmed or cancelled; the
\* handler suspends in finishHumanInTheLoop
DependencyFormClicked(confirm) ==
    /\ conversationState = "WAITING_FOR_INPUT"
    /\ BagCardinality(handlers) < MaxHandlers
    /\ IF confirm
         THEN /\ HandlerStarts("hilSelected")
              /\ UNCHANGED conversationState
         ELSE /\ HandlerStarts("hil")
              /\ conversationState' = WithoutHILState(conversationState)
    /\ UNCHANGED <<formShown, raised, hilFailureMessage, isAuthenticating, stopHist, jobId, cancelled,
                   jobFailureMetadata, ctlFrame>>

\* lines 438-441: the selected dependency was uploaded and the job resumed
HILDependencySelectionUploaded ==
    /\ BagIn("hilSelected", handlers)
    /\ conversationState' = "JOB_SUBMITTED"
    /\ UNCHANGED <<handlers, formShown, raised, hilFailureMessage, isAuthenticating, stopHist,
                   jobId, cancelled,
                   jobFailureMetadata,
                   ctlFrame>>

\* the message of the error finishHumanInTheLoop throws
HilResumeError == "finishHumanInTheLoop failed"

\* variant of JobFinishedMessage: transformationFinished sends no message
JobFinishedMessage_None(message, shown) == shown

\* lines 419-421: the job-finished message in the chat after transformationFinished was
\* called with `message`; an empty message is not sent
JobFinishedMessage(message, shown) == IF message # "" THEN message ELSE shown

\* lines 518-524: finishHumanInTheLoop without a selection ends; a failure ends the flow
\* through transformationFinished with the message of the error
HilDone(ok) ==
    /\ BagIn("hil", handlers)
    /\ HandlerEnds("hil")
    /\ IF ok
         THEN UNCHANGED <<conversationState, hilFailureMessage>>
         ELSE /\ transformationFinished
              /\ hilFailureMessage' = JobFinishedMessage(HilResumeError, hilFailureMessage)
    /\ raised' = raised
    /\ UNCHANGED <<isAuthenticating, formShown, stopHist, jobId, cancelled, jobFailureMetadata,
                   ctlFrame>>

\* lines 482-486: finishHumanInTheLoop with the selected dependency ends; a failure is
\* thrown out of the handler
HilSelectedDone(ok) ==
    /\ BagIn("hilSelected", handlers)
    /\ HandlerEnds("hilSelected")
    /\ raised' = IF ok THEN raised ELSE "hil"
    /\ UNCHANGED <<hilFailureMessage, isAuthenticating, conversationState, formShown, stopHist,
                   jobId, cancelled,
                   jobFailureMetadata,
                   ctlFrame>>

\* variant of stopJobReturnsEarly: the backend is called without a job id
stopJobReturnsEarly_Never(jid) == FALSE

\* lines 163-165
stopJobReturnsEarly(jid) == jid = ""

\* the stop button is offered while a job is compiling, submitted or polled
StopButtonAvailable == JobsInFlight > 0

\* lines 267-269, 162-170: the stop button is clicked: stopTransformByQ flags the job as
\* cancelled and calls stopJob, which calls the backend unless the job has no id yet; then
\* postTransformationJob is called
StopClicked ==
    /\ StopButtonAvailable
    /\ stopRequests < MaxStops
    /\ BagCardinality(handlers) < MaxHandlers
    /\ stopRequests' = stopRequests + 1
    /\ stopTransformByQ
    /\ IF stopJobReturnsEarly(jobId)
         THEN /\ HandlerStarts("post")
              /\ postRuns' = postRuns + 1
              /\ UNCHANGED backendStops
         ELSE /\ HandlerStarts("stop")
              /\ backendStops' = backendStops + 1
              /\ UNCHANGED postRuns
    /\ UNCHANGED <<conversationState, formShown, raised, hilFailureMessage, isAuthenticating,
                   stopFailures,
                   cleanupRuns, jobId,
                   jobFailureMetadata, ctlFrame>>

\* variant of AfterStop: a failed stop call ends the handler
AfterStop_FailureEnds(ok) == IF ok THEN "post" ELSE "done"

\* lines 268-269: the await the STOP_TRANSFORMATION_JOB handler reaches after
\* stopTransformByQ, which reports a failed stop call to the user and returns
AfterStop(ok) == "post"

\* lines 171-181, 268-269: the backend stop call ends
StopResponse(ok) ==
    /\ BagIn("stop", handlers)
    /\ jobFailureMetadata' = IF ok THEN OtherRequest ELSE jobFailureMetadata
    /\ stopFailures' = IF ok THEN stopFailures ELSE stopFailures + 1
    /\ IF AfterStop(ok) = "post"
         THEN /\ HandlerMoves("stop", "post")
              /\ postRuns' = postRuns + 1
         ELSE /\ HandlerEnds("stop")
              /\ UNCHANGED postRuns
    /\ UNCHANGED <<conversationState, formShown, raised, hilFailureMessage, isAuthenticating,
                   stopRequests,
                   backendStops, cleanupRuns,
                   jobId, cancelled, ctlFrame>>

\* lines 269-270: postTransformationJob ends, having reported the end of the job to the
\* chat (transformationFinished); cleanupTransformationJob is called
PostTransformationJobDone ==
    /\ BagIn("post", handlers)
    /\ HandlerMoves("post", "cleanup")
    /\ cleanupRuns' = cleanupRuns + 1
    /\ transformationFinished
    /\ UNCHANGED <<formShown, raised, hilFailureMessage, isAuthenticating, stopRequests, backendStops,
                   stopFailures, postRuns, jobId,
                   cancelled, jobFailureMetadata, ctlFrame>>

\* lines 270-271: cleanupTransformationJob ends and the handler returns
CleanupTransformationJobDone ==
    /\ BagIn("cleanup", handlers)
    /\ HandlerEnds("cleanup")
    /\ UNCHANGED <<conversationState, formShown, raised, hilFailureMessage, isAuthenticating,
                   stopHist, jobId,
                   cancelled,
                   jobFailureMetadata, ctlFrame>>

ValidationResults == {"ok", "JavaHomeNotSetError", "Error"}

NextCtl ==
    \/ \E r \in TransformRequests : TransformInitiated(r.hasFolders, r.connected, r.hasProjects)
    \/ \E r \in TransformRequests : StartNewTransformation(r.hasFolders, r.connected, r.hasProjects)
    \/ FormConfirmed
    \/ \E r \in ValidationResults : ValidateDone(r)
    \/ \E validPath \in BOOLEAN : ProcessHumanChatMessage(validPath)
    \/ \E ok \in BOOLEAN : CompileDone(ok)
    \/ \E connected \in BOOLEAN : AuthChecked(connected)
    \/ JobUploaded
    \/ StartTransformByQReturns
    \/ \E kind \in ErrorKinds : ErrorThrown(kind)
    \/ StartHILIntervention
    \/ \E confirm \in BOOLEAN : DependencyFormClicked(confirm)
    \/ HILDependencySelectionUploaded
    \/ \E ok \in BOOLEAN : HilDone(ok)
    \/ \E ok \in BOOLEAN : HilSelectedDone(ok)
    \/ StopClicked
    \/ \E ok \in BOOLEAN : StopResponse(ok)
    \/ PostTransformationJobDone
    \/ CleanupTransformationJobDone

SpecCtl == Init /\ [][NextCtl]_vars

\* ------------------------------------------------------------------ zipCode
\* the ceiling of the archive size (CodeWhispererConstants), in bytes
uploadZipSizeLimitInBytes == 2000000000

\* paths of files relative to the folder that is walked
RelPaths == {<<"manifest.json">>, <<"d", "A.java">>, <<"x.lock">>}

\* the listings getFilesRecursively can return: lists of distinct files
FileLists ==
    UNION {{l \in [1..n -> RelPaths] : \A i, j \in 1..n : i # j => l[i] # l[j]} : n \in 0..MaxFiles}

\* path.resolve(dir, name)
Resolve(dir, rel) == <<dir>> \o rel

\* path.relative(from, file), for a file below the folder `from`
Relative(from, file) == IF Head(file) = from THEN Tail(file) ELSE <<"..">> \o file

\* path.dirname and path.basename
Dirname(path) == SubSeq(path, 1, Len(path) - 1)
Basename(path) == path[Len(path)]

\* lines 223-228: names that end with .repositories, .sha1, .lock, gc.properties or .dll
isExcludedFile(path) == Basename(path) \in {"x.lock", "gc.properties"}

\* variant of PaddedPath: the folder name is not put in front of the relative path
PaddedPath_NoFolder(folder, rel) == rel

\* lines 290, 313: path.join('sources', relativePath), path.join('dependencies/', relativePath)
PaddedPath(folder, rel) == <<folder>> \o rel

\* lines 289-291, 312-314: the entry name zip.addLocalFile(file, zipPath) gives a file of
\* the tree below `root`: zipPath followed by the base name of the file
EntryName(folder, root, file) ==
    Dirname(PaddedPath(folder, Relative(root, file))) \o <<Basename(file)>>

\* line 336
ManifestEntry == <<"manifest.json">>

\* lines 340-345: the build log written by writeLogs, added at the root of the archive
LogEntry == <<"build-logs.txt">>

\* line 353: an error thrown inside the try block is replaced by a generic error
FailedToZip(message) == <<"Failed to zip project due to: ", message>>

\* variant of ExceedsLimit: an archive of exactly the ceiling is refused
ExceedsLimit_AtCeiling(size) == size >= uploadZipSizeLimitInBytes

\* line 362
ExceedsLimit(size) == size > uploadZipSizeLimitInBytes

ZipSet(p, todo, entries, out) ==
    /\ zipPc' = p
    /\ zipTodo' = todo
    /\ zipEntries' = entries
    /\ zipOutcome' = out

\* lines 325-341: the manifest is added, cancellation is checked and writeLogs is awaited
WriteManifest(entries) ==
    LET written == Append(entries, ManifestEntry)
    IN  IF throwIfCancelled
          THEN ZipSet("done", <<>>, written, FailedToZip("TransformByQStoppedError"))
          ELSE ZipSet("writeLogs", <<>>, written, zipOutcome)

\* lines 297-323: cancellation is checked; the dependency walk starts when the folder
\* exists and has files that are not excluded
EnterDependencyWalk(entries, folder) ==
    IF throwIfCancelled
      THEN ZipSet("done", <<>>, entries, FailedToZip("TransformByQStoppedError"))
      ELSE LET files == IF folder.kind # "folder" THEN <<>>
                        ELSE SelectSeq(folder.files, LAMBDA f : ~isExcludedFile(f))
           IN  IF files # <<>>
                 THEN ZipSet("dependencyWalk", files, entries, zipOutcome)
                 ELSE WriteManifest(entries)

\* a folder argument with the listing getFilesRecursively returns for it
Folder(dir, l) == [kind |-> "folder", files |-> [i \in DOMAIN l |-> Resolve(dir, l[i])]]

\* the arguments of a zipCode call: modulePath and dependenciesFolder, each a folder or
\* undefined; the dependencies folder can also be missing on disk (line 302)
SourceArgs == {Undefined} \cup {Folder("module", l) : l \in FileLists}
DependencyArgs ==
    {Undefined, [kind |-> "missing", files |-> <<>>]} \cup {Folder("deps", l) : l \in FileLists}

\* lines 268-281: zipCode is called: cancellation is checked and the source walk starts
ZipCodeCalled(sources, dependencies, hil) ==
    /\ zipPc = "idle"
    /\ zipParams' = [dependenciesFolder |-> dependencies, humanInTheLoopFlag |-> hil]
    /\ zipSize' = zipSize
    /\ IF throwIfCancelled
         THEN ZipSet("done", <<>>, <<>>, FailedToZip("TransformByQStoppedError"))
         ELSE IF sources.kind = "folder" /\ sources.files # <<>>
           THEN ZipSet("sourceWalk", sources.files, <<>>, zipOutcome)
           ELSE EnterDependencyWalk(<<>>, dependencies)
    /\ UNCHANGED <<cancelled, conversationState, zipFrame>>

\* lines 280-297: a source file is visited: a directory (a symbolic link) and an excluded
\* file are skipped, any other file is added below sources; after the last file the
\* function goes on to the dependency walk
SourceFileVisited(isDirectory) ==
    /\ zipPc = "sourceWalk"
    /\ LET file == Head(zipTodo)
           entries == IF isDirectory \/ isExcludedFile(file) THEN zipEntries
                      ELSE Append(zipEntries, EntryName("sources", "module", file))
       IN  IF Tail(zipTodo) # <<>>
             THEN ZipSet("sourceWalk", Tail(zipTodo), entries, zipOutcome)
             ELSE EnterDependencyWalk(entries, zipParams.dependenciesFolder)
    /\ UNCHANGED <<zipParams, zipSize, cancelled, conversationState, zipFrame>>

\* lines 308-338: a dependency file is added below dependencies; after the last file the
\* function goes on to the manifest
DependencyFileVisited ==
    /\ zipPc = "dependencyWalk"
    /\ LET entries == Append(zipEntries, EntryName("dependencies", "deps", Head(zipTodo)))
       IN  IF Tail(zipTodo) # <<>>
             THEN ZipSet("dependencyWalk", Tail(zipTodo), entries, zipOutcome)
             ELSE WriteManifest(entries)
    /\ UNCHANGED <<zipParams, zipSize, cancelled, conversationState, zipFrame>>

\* lines 341-360: writeLogs ends; the build log is added unless the archive is packaged for
\* a human-in-the-loop round, the archive is written and its size is asked for
LogsWritten(ok) ==
    /\ zipPc = "writeLogs"
    /\ IF ok
         THEN ZipSet("stat", <<>>,
                     IF zipParams.humanInTheLoopFlag THEN zipEntries ELSE Append(zipEntries, LogEntry),
                     zipOutcome)
         ELSE ZipSet("done", <<>>, zipEntries, FailedToZip("Error"))
    /\ UNCHANGED <<zipParams, zipSize, cancelled, conversationState, zipFrame>>

\* the archive sizes tried: below, at and above the ceiling
ZipSizes == {1, uploadZipSizeLimitInBytes, uploadZipSizeLimitInBytes + 1}

\* lines 360-375: the size of the archive arrives; an archive above the ceiling ends the
\* conversation and throws ZipExceedsSizeLimitError, any other archive is returned
ZipMeasured(size) ==
    /\ zipPc = "stat"
    /\ zipSize' = size
    /\ IF ExceedsLimit(size)
         THEN /\ transformationFinished
              /\ ZipSet("done", <<>>, zipEntries, <<"ZipExceedsSizeLimitError">>)
         ELSE /\ UNCHANGED conversationState
              /\ ZipSet("done", <<>>, zipEntries, <<"zipped-code.zip">>)
    /\ UNCHANGED <<zipParams, cancelled, zipFrame>>

\* the user stops the job while the project is packaged
StopWhileZipping ==
    /\ ~cancelled
    /\ stopTransformByQ
    /\ UNCHANGED <<conversationState, zipVars, zipFrame>>

NextZip ==
    \/ \E sources \in SourceArgs, dependencies \in DependencyArgs, hil \in BOOLEAN :
          ZipCodeCalled(sources, dependencies, hil)
    \/ \E isDirectory \in BOOLEAN : SourceFileVisited(isDirectory)
    \/ DependencyFileVisited
    \/ \E ok \in BOOLEAN : LogsWritten(ok)
    \/ \E size \in ZipSizes : ZipMeasured(size)
    \/ StopWhileZipping

SpecZip == Init /\ [][NextZip]_vars

\* ---------------------------------------------------------- backend wrappers
\* the messages of the errors a request can fail with
Causes ==
    {"Request has expired", "Failed to establish a socket connection",
     "self signed certificate in certificate chain", "Service unavailable"}

\* variant of WrapError: the error of the request is raised as it is
WrapError_Raw(op, cause) == <<cause>>

\* lines 131-141, 156-158, 178-180, 201-203, 398-400: the message of the Error a wrapper
\* throws when its request `op` failed with message `cause`
WrapError(op, cause) ==
    CASE op = "createUploadUrl" -> <<"The upload failed due to: ", cause>>
      [] op = "put" ->
            IF cause = "Request has expired" THEN <<"errorUploadingWithExpiredUrl">>
            ELSE IF cause = "Failed to establish a socket connection" THEN <<"socketConnectionFailed">>
            ELSE IF cause = "self signed certificate in certificate chain"
              THEN <<"selfSignedCertificateError">>
            ELSE <<"The upload failed due to: ", cause>>
      [] op = "startTransformation" -> <<"Starting the job failed due to: ", cause>>
      [] op = "resumeTransformation" -> <<"Resuming the job failed due to: ", cause>>
      [] OTHER -> <<"Stop job failed">>

\* a wrapper is called when no other call of a wrapper is running
ApiCall(op) ==
    /\ apiPc \in {"idle", "done"}
    /\ apiOp' = op

\* the call sends its request `op` and suspends
ApiRequest(op) ==
    /\ apiPc' = op
    /\ attempts' = [NoAttempts EXCEPT ![op] = 1]
    /\ apiOutcome' = <<"none">>

\* the call ends
ApiEnds(out) ==
    /\ apiPc' = "done"
    /\ apiOutcome' = out

\* the upload ids createUploadUrl can answer with
UploadIds == {"upload-1", "upload<2>"}

\* textUtilities.encodeHTML: the characters of markup are replaced by their entities
encodeHTML(text) == IF text = "upload<2>" THEN "upload&lt;2&gt;" ELSE text

\* variant of SetsJobId: every upload sets the job id
SetsJobId_EveryUpload(ctx) == TRUE

\* lines 213-217: only the initial upload, made without an uploadContext, sets the job id
SetsJobId(ctx) == ~ctx

\* lines 184-196: uploadPayload is called: the archive is read, cancellation is checked and
\* an upload URL is asked for
UploadPayloadCalled(ctx) ==
    /\ ApiCall("uploadPayload")
    /\ uploadContext' = ctx
    /\ uploadId' = ""
    /\ IF throwIfCancelled
         THEN ApiEnds(<<"TransformByQStoppedError">>) /\ attempts' = NoAttempts
         ELSE ApiRequest("createUploadUrl")
    /\ UNCHANGED <<cancelled, jobId, jobFailureMetadata, apiFrame>>

\* lines 197-211, 109-117: the upload URL arrives, or the request fails; uploadArtifactToS3
\* checks cancellation and asks for the size of the archive
CreateUploadUrlResponse(ok, cause, id) ==
    /\ apiPc = "createUploadUrl"
    /\ IF ~ok
         THEN /\ ApiEnds(WrapError("createUploadUrl", cause))
              /\ UNCHANGED <<jobFailureMetadata, uploadId>>
         ELSE /\ jobFailureMetadata' = OtherRequest
              /\ uploadId' = id
              /\ IF throwIfCancelled
                   THEN ApiEnds(<<"TransformByQStoppedError">>)
                   ELSE apiPc' = "stat" /\ UNCHANGED apiOutcome
    /\ UNCHANGED <<apiOp, uploadContext, attempts, cancelled, jobId, apiFrame>>

\* lines 117-129: the size of the archive arrives and the archive is sent to the upload URL
ArchiveSizeRead(ok) ==
    /\ apiPc = "stat"
    /\ IF ok
         THEN /\ apiPc' = "put"
              /\ attempts' = [attempts EXCEPT !["put"] = @ + 1]
              /\ UNCHANGED apiOutcome
         ELSE /\ ApiEnds(<<"The upload failed due to: ", "ENOENT">>)
              /\ UNCHANGED attempts
    /\ UNCHANGED <<apiOp, uploadContext, uploadId, cancelled, jobId, jobFailureMetadata, apiFrame>>

\* lines 126-142, 205-220: the transfer ends; after a successful first upload the upload id
\* becomes the job id
PutResponse(ok, cause) ==
    /\ apiPc = "put"
    /\ IF ok
         THEN /\ ApiEnds(<<"uploadId">>)
              /\ jobId' = IF SetsJobId(uploadContext) THEN encodeHTML(uploadId) ELSE jobId
         ELSE /\ ApiEnds(WrapError("put", cause))
              /\ UNCHANGED jobId
    /\ UNCHANGED <<apiOp, uploadContext, uploadId, attempts, cancelled, jobFailureMetadata, apiFrame>>

\* lines 378-392
StartJobCalled ==
    /\ ApiCall("startJob")
    /\ ApiRequest("startTransformation")
    /\ UNCHANGED <<uploadContext, uploadId, cancelled, jobId, jobFailureMetadata, apiFrame>>

\* lines 393-401
StartJobResponse(ok, cause) ==
    /\ apiPc = "startTransformation"
    /\ IF ok
         THEN ApiEnds(<<"transformationJobId">>) /\ jobFailureMetadata' = OtherRequest
         ELSE ApiEnds(WrapError("startTransformation", cause)) /\ UNCHANGED jobFailureMetadata
    /\ UNCHANGED <<apiOp, uploadContext, uploadId, attempts, cancelled, jobId, apiFrame>>

\* lines 145-150
ResumeTransformationJobCalled ==
    /\ ApiCall("resumeTransformationJob")
    /\ ApiRequest("resumeTransformation")
    /\ UNCHANGED <<uploadContext, uploadId, cancelled, jobId, jobFailureMetadata, apiFrame>>

\* lines 151-159
ResumeTransformationJobResponse(ok, cause) ==
    /\ apiPc = "resumeTransformation"
    /\ IF ok
         THEN ApiEnds(<<"transformationStatus">>)
         ELSE ApiEnds(WrapError("resumeTransformation", cause))
    /\ UNCHANGED <<apiOp, uploadContext, uploadId, attempts, cancelled, jobId, jobFailureMetadata, apiFrame>>

\* lines 162-170
StopJobCalled ==
    /\ ApiCall("stopJob")
    /\ IF stopJobReturnsEarly(jobId)
         THEN ApiEnds(<<"undefined">>) /\ attempts' = NoAttempts
         ELSE ApiRequest("stopTransformation")
    /\ UNCHANGED <<uploadContext, uploadId, cancelled, jobId, jobFailureMetadata, apiFrame>>

\* lines 171-181
StopJobResponse(ok, cause) ==
    /\ apiPc = "stopTransformation"
    /\ IF ok
         THEN ApiEnds(<<"undefined">>) /\ jobFailureMetadata' = OtherRequest
         ELSE ApiEnds(WrapError("stopTransformation", cause)) /\ UNCHANGED jobFailureMetadata
    /\ UNCHANGED <<apiOp, uploadContext, uploadId, attempts, cancelled, jobId, apiFrame>>

\* the user stops the job while a wrapper is running or between two calls
StopWhileCalling ==
    /\ ~cancelled
    /\ stopTransformByQ
    /\ UNCHANGED <<apiVars, jobId, jobFailureMetadata, apiFrame>>

NextApi ==
    \/ \E ctx \in BOOLEAN : UploadPayloadCalled(ctx)
    \/ \E ok \in BOOLEAN, cause \in Causes, id \in UploadIds : CreateUploadUrlResponse(ok, cause, id)
    \/ \E ok \in BOOLEAN : ArchiveSizeRead(ok)
    \/ \E ok \in BOOLEAN, cause \in Causes : PutResponse(ok, cause)
    \/ StartJobCalled
    \/ \E ok \in BOOLEAN, cause \in Causes : StartJobResponse(ok, cause)
    \/ ResumeTransformationJobCalled
    \/ \E ok \in BOOLEAN, cause \in Causes : ResumeTransformationJobResponse(ok, cause)
    \/ StopJobCalled
    \/ \E ok \in BOOLEAN, cause \in Causes : StopJobResponse(ok, cause)
    \/ StopWhileCalling

SpecApi == Init /\ [][NextApi]_vars

\* ------------------------------------------------- reason of a job's failure
\* longest reason text, in phrases
MaxReasonLen == 3

\* a reason text is a sequence of phrases
Phrases == {"Monthly aggregated", "Lines of Code limit breached", "for job", "Unknown error"}

ReasonTexts == UNION {[1..n -> Phrases] : n \in 0..MaxReasonLen}

\* line 620: 'Monthly aggregated Lines of Code limit breached'
MonthlyLimitBreached == <<"Monthly aggregated", "Lines of Code limit breached">>

\* line 627: 'Lines of Code limit breached for job'
JobLimitBreached == <<"Lines of Code limit breached", "for job">>

\* String.prototype.includes: `part` occurs in `text` as a run of consecutive phrases
includes(text, part) ==
    \E i \in 1..(Len(text) - Len(part) + 1) : SubSeq(text, i, i + Len(part) - 1) = part

\* variant of ReasonKind: the limit of the job is tested before the monthly limit
ReasonKind_JobFirst(text) ==
    IF includes(text, JobLimitBreached) THEN "LinesLimit"
    ELSE IF includes(text, MonthlyLimitBreached) THEN "MonthlyLimit"
    ELSE "Generic"

\* lines 620, 627, 634: the branch taken for a reason text
ReasonKind(text) ==
    IF includes(text, MonthlyLimitBreached) THEN "MonthlyLimit"
    ELSE IF includes(text, JobLimitBreached) THEN "LinesLimit"
    ELSE "Generic"

\* lines 624-626, 631-633, 635-637: the message stored for the chat
ChatMessageFor(text) ==
    CASE ReasonKind(text) = "MonthlyLimit" -> <<"failedToStartJobMonthlyLimitChatMessage">>
      [] ReasonKind(text) = "LinesLimit" -> <<"failedToStartJobLinesLimitChatMessage">>
      [] OTHER -> <<"failedToCompleteJobGenericChatMessage", " ">> \o text

\* lines 621-623, 628-630, 638-640: the message stored for the notification
NotificationFor(text) ==
    CASE ReasonKind(text) = "MonthlyLimit" -> <<"failedToStartJobMonthlyLimitNotification">>
      [] ReasonKind(text) = "LinesLimit" -> <<"failedToStartJobLinesLimitNotification">>
      [] OTHER -> <<"failedToCompleteJobGenericNotification", " ">> \o text

\* the variables the handling of the reason leaves alone
reasonFrame ==
    <<polledJobStatus, waitingAuth, selection, cancelled, pollRest, ctlVars, jobId, zipVars, apiVars,
      valVars,
      buildVars,
      manVars>>

\* lines 618-643: a status response carries a reason
ReasonReceived(text) ==
    /\ reason' = [defined |-> TRUE, text |-> text]
    /\ jobFailureErrorChatMessage' = ChatMessageFor(text)
    /\ jobFailureErrorNotification' = NotificationFor(text)
    /\ jobFailureMetadata' = OtherRequest
    /\ UNCHANGED reasonFrame

\* lines 618-619: a status response carries no reason: the stored messages stay
NoReasonReceived ==
    /\ reason' = NoReason
    /\ UNCHANGED <<jobFailureErrorChatMessage, jobFailureErrorNotification, jobFailureMetadata>>
    /\ UNCHANGED reasonFrame

NextReason ==
    \/ \E text \in ReasonTexts : ReasonReceived(text)
    \/ NoReasonReceived

SpecReason == Init /\ [][NextReason]_vars

\* ------------------------------------------------------- project validation
\* most workspace folders open at the same time
MaxProjects == 2

\* what javap -v prints for the first .class file of a folder: no .class file, javap could
\* not be spawned, javap failed, or the text after 'major version: '
Probes == {"noClass", "JavapSpawnError", "JavapExecutionError", "52", "55", "61", ""}

\* a workspace folder: whether it holds a .java file, whether checkBuildSystem finds a
\* Maven or Gradle descriptor in it, and what the probe of its .class file gives; only
\* folders that passed both filters are probed (lines 584-590), the others are given the
\* one probe result "noClass"
FolderKinds ==
    {k \in [java : BOOLEAN, build : BOOLEAN, probe : Probes] :
        ~(k.java /\ k.build) => k.probe = "noClass"}

FolderLists == UNION {[1..n -> FolderKinds] : n \in 0..MaxProjects}

JDK8VersionNumber == "52"
JDK11VersionNumber == "55"

\* line 539: folders === undefined
FoldersMissing(folders) == ~folders.defined

\* lines 543-551: a project for every folder, in the order of the folders
ProjectsOf(list) == [i \in 1..Len(list) |-> [name |-> i, path |-> list[i], JDKVersion |-> "unset"]]

RECURSIVE Filter(_, _)
\* the projects of `projects` picked by `keep`, in their order
Filter(projects, keep) ==
    IF projects = <<>> THEN <<>>
    ELSE IF Head(projects).name \in keep
           THEN <<Head(projects)>> \o Filter(Tail(projects), keep)
           ELSE Filter(Tail(projects), keep)

\* lines 554-568
getJavaProjects(projects) ==
    Filter(projects, {projects[i].name : i \in {j \in 1..Len(projects) : projects[j].path.java}})

\* lines 570-582
getMavenOrGradleJavaProjects(javaProjects) ==
    Filter(javaProjects,
           {javaProjects[i].name : i \in {j \in 1..Len(javaProjects) : javaProjects[j].path.build}})

\* variant of detectedJavaVersion: a failing javap run is raised
detectedJavaVersion_JavapRaises(probe) ==
    IF probe \in {"noClass"} THEN "undefined"
    ELSE IF probe \in {"JavapSpawnError", "JavapExecutionError"} THEN "raise"
    ELSE IF probe = JDK8VersionNumber THEN "JDK8"
    ELSE IF probe = JDK11VersionNumber THEN "JDK11"
    ELSE "UNSUPPORTED"

\* lines 590-629: the version javap shows for the first .class file of the project
detectedJavaVersion(probe) ==
    IF probe \in {"noClass", "JavapSpawnError", "JavapExecutionError"} THEN "undefined"
    ELSE IF probe = JDK8VersionNumber THEN "JDK8"
    ELSE IF probe = JDK11VersionNumber THEN "JDK11"
    ELSE "UNSUPPORTED"

\* lines 584-636: every project is kept, with its detected version
getProjectsValidToTransform(projects) ==
    LET kept == {projects[i].name : i \in {j \in 1..Len(projects) :
                      detectedJavaVersion(projects[j].path.probe) # "raise"}}
        list == Filter(projects, kept)
    IN  [i \in 1..Len(list) |->
            [list[i] EXCEPT !.JDKVersion = detectedJavaVersion(list[i].path.probe)]]

\* variant of ValidationError: the build descriptors are looked for in every project first
ValidationError_BuildFirst(projects) ==
    IF getMavenOrGradleJavaProjects(projects) = <<>> THEN "NoMavenOrGradleJavaProjectsFoundError"
    ELSE IF getJavaProjects(projects) = <<>> THEN "NoJavaProjectsFoundError"
    ELSE "none"

\* lines 648-666: the error validateOpenProjects throws for the projects, "none" if none
ValidationError(projects) ==
    IF getJavaProjects(projects) = <<>> THEN "NoJavaProjectsFoundError"
    ELSE IF getMavenOrGradleJavaProjects(getJavaProjects(projects)) = <<>>
      THEN "NoMavenOrGradleJavaProjectsFoundError"
    ELSE "none"

\* the variables project validation leaves alone
valFrame ==
    <<tbq, pollRest, ctlVars, jobId, zipVars, apiVars, reasonVars,
      buildVars,
      manVars>>

\* lines 536-552: getOpenProjects reads the workspace folders; a validation keeps nothing
\* of an earlier one, so one validation is modelled
GetOpenProjects(folders) ==
    /\ valPc = "idle"
    /\ workspaceFolders' = folders
    /\ validProjects' = <<>>
    /\ valNotified' = FALSE
    /\ IF FoldersMissing(folders)
         THEN /\ valPc' = "done"
              /\ valOutcome' = "NoOpenProjectsError"
              /\ openProjects' = <<>>
         ELSE /\ valPc' = "opened"
              /\ valOutcome' = "none"
              /\ openProjects' = ProjectsOf(folders.list)
    /\ UNCHANGED valFrame

\* lines 644-675: validateOpenProjects is given the open projects
ValidateOpenProjects(onProjectFirstOpen) ==
    /\ valPc = "opened"
    /\ valPc' = "done"
    /\ LET err == ValidationError(openProjects)
       IN  /\ valNotified' = (err = "NoMavenOrGradleJavaProjectsFoundError" /\ ~onProjectFirstOpen)
           /\ IF err # "none"
                THEN valOutcome' = err /\ validProjects' = <<>>
                ELSE /\ valOutcome' = "returned"
                     /\ validProjects' = getProjectsValidToTransform(
                                            getMavenOrGradleJavaProjects(getJavaProjects(openProjects)))
    /\ UNCHANGED <<workspaceFolders, openProjects, valFrame>>

NextValidate ==
    \/ \E folders \in {NoFolders} \cup {[defined |-> TRUE, list |-> l] : l \in FolderLists} :
          GetOpenProjects(folders)
    \/ \E onProjectFirstOpen \in BOOLEAN : ValidateOpenProjects(onProjectFirstOpen)

SpecValidate == Init /\ [][NextValidate]_vars

\* ------------------------------------------------ prepareProjectDependencies
\* line 321: the interpreter names, in the order they are probed
pythonExecutables == <<"python", "python3", "py", "py3">>

\* transformByQState.getBuildSystemCommand() of a Gradle project
GradleCommands == {"./gradlew", ".\\gradlew.bat", "gradle"}

NoPythonError == "No Python executable found (checked python, python3, py, and py3). Please install Python and try again."
GradleWrapperError == "Failed to create Gradle wrapper"
GradleCopyDepsError == "gradle_copy_deps.py failed"
MavenInstallError == "Maven clean install error"

\* variant of getPythonExecutable: only the first name is probed
getPythonExecutable_FirstOnly(working) ==
    IF pythonExecutables[1] \in working THEN 1 ELSE 0

\* lines 320-333: the position of the first name whose --version run succeeds, 0 (undefined)
\* when none does
getPythonExecutable(working) ==
    IF \E i \in 1..Len(pythonExecutables) : pythonExecutables[i] \in working
      THEN CHOOSE i \in 1..Len(pythonExecutables) :
              /\ pythonExecutables[i] \in working
              /\ \A j \in 1..(i - 1) : pythonExecutables[j] \notin working
      ELSE 0

\* lines 322-331: the --version runs made until an interpreter is found
PythonProbes(working) ==
    LET found == getPythonExecutable(working)
        last == IF found = 0 THEN Len(pythonExecutables) ELSE found
    IN  [i \in 1..last |-> pythonExecutables[i]]

\* variant of CopyFailureIsFatal: a failure of copy-dependencies ends the operation
CopyFailureIsFatal_Always(copyOk) == ~copyOk

\* lines 296-303: the error of copyMavenProjectDependencies is caught and logged
CopyFailureIsFatal(copyOk) == FALSE

\* the variables a local build leaves alone
buildFrame ==
    <<polledJobStatus, waitingAuth, selection, jobFailureMetadata, pollRest, ctlVars, jobId,
      zipVars, apiVars, reasonVars, valVars,
      manVars>>

\* a call starts
BuildCalled(system) ==
    /\ buildPc \in {"idle", "done"}
    /\ buildSystem' = system

\* lines 316-317, 432-433: the commands succeeded: cancellation is checked
BuildCommandsSucceeded ==
    /\ buildPc' = "done"
    /\ buildErr' = "none"
    /\ IF throwIfCancelled
         THEN buildOutcome' = "TransformByQStoppedError" /\ buildNotices' = {}
         ELSE buildOutcome' = "succeeded" /\ buildNotices' = {"buildSucceededNotification"}

\* lines 308-310, 425-427: a fatal error is caught: the user is notified and the build log is
\* written
BuildCommandFailed(err, notice) ==
    /\ buildPc' = "log"
    /\ buildErr' = err
    /\ buildOutcome' = "none"
    /\ buildNotices' = {notice}

\* lines 280-284, 295-317: prepareMavenProjectDependencies runs copy-dependencies and clean
\* install
PrepareMavenProjectDependencies(copyOk, installOk) ==
    /\ BuildCalled("Maven")
    /\ IF CopyFailureIsFatal(copyOk)
         THEN /\ buildRuns' = <<"copy-dependencies">>
              /\ buildFailed' = {"copy-dependencies"}
              /\ BuildCommandFailed("Maven copy-deps error", "cleanInstallErrorNotification")
         ELSE /\ buildRuns' = <<"copy-dependencies", "clean install">>
              /\ buildFailed' = (IF copyOk THEN {} ELSE {"copy-dependencies"})
                                   \cup (IF installOk THEN {} ELSE {"clean install"})
              /\ IF installOk
                   THEN BuildCommandsSucceeded
                   ELSE BuildCommandFailed(MavenInstallError, "cleanInstallErrorNotification")
    /\ UNCHANGED <<cancelled, buildFrame>>

\* lines 285-292, 335-433: prepareGradleProjectDependencies looks for an interpreter, creates
\* the Gradle wrapper when the project has none and runs gradle_copy_deps.py
PrepareGradleProjectDependencies(working, command, wrapperOk, scriptOk) ==
    /\ BuildCalled("Gradle")
    /\ LET python == getPythonExecutable(working)
           probes == PythonProbes(working)
           unfit == {probes[i] : i \in {j \in 1..Len(probes) : probes[j] \notin working}}
       IN  IF python = 0
             THEN /\ buildRuns' = probes
                  /\ buildFailed' = unfit
                  /\ BuildCommandFailed(NoPythonError, "gradleBuildErrorNotification")
           ELSE IF command = "gradle" /\ ~wrapperOk
             THEN /\ buildRuns' = probes \o <<"gradle wrapper">>
                  /\ buildFailed' = unfit \cup {"gradle wrapper"}
                  /\ BuildCommandFailed(GradleWrapperError, "gradleBuildErrorNotification")
           ELSE /\ buildRuns' = probes
                                  \o (IF command = "gradle" THEN <<"gradle wrapper">> ELSE <<>>)
                                  \o <<"gradle_copy_deps.py">>
                /\ buildFailed' = unfit \cup (IF scriptOk THEN {} ELSE {"gradle_copy_deps.py"})
                /\ IF scriptOk
                     THEN BuildCommandsSucceeded
                     ELSE BuildCommandFailed(GradleCopyDepsError, "gradleBuildErrorNotification")
    /\ UNCHANGED <<cancelled, buildFrame>>

\* lines 310-313, 427-430: the build log is shown and the error is thrown again
BuildLogOpened ==
    /\ buildPc = "log"
    /\ buildPc' = "done"
    /\ buildOutcome' = buildErr
    /\ buildNotices' = buildNotices \cup {"build-logs.txt"}
    /\ UNCHANGED <<buildSystem, buildRuns, buildFailed, buildErr, cancelled, buildFrame>>

\* the user stops the job before or while the project is built
StopWhileBuilding ==
    /\ ~cancelled
    /\ stopTransformByQ
    /\ UNCHANGED <<conversationState, buildVars, buildFrame>>

NextBuild ==
    \/ \E copyOk \in BOOLEAN, installOk \in BOOLEAN :
          PrepareMavenProjectDependencies(copyOk, installOk)
    \/ \E working \in SUBSET {pythonExecutables[i] : i \in 1..Len(pythonExecutables)},
          command \in GradleCommands, wrapperOk \in BOOLEAN, scriptOk \in BOOLEAN :
          PrepareGradleProjectDependencies(working, command, wrapperOk, scriptOk)
    \/ BuildLogOpened
    \/ StopWhileBuilding

SpecBuild == Init /\ [][NextBuild]_vars

\* ------------------------------------------------- manifest.json of zipCode
String(s) == [type |-> "string", v |-> <<s>>]
Array(a) == [type |-> "array", v |-> a]

\* the properties of a ZipManifest, in the order they are declared
ZipManifestKeys ==
    <<"sourcesRoot", "dependenciesRoot", "buildLogs", "version", "hilCapabilities",
      "transformCapabilities", "buildTool">>

\* the properties of a HilZipManifest
HilZipManifestKeys == <<"hilCapability", "hilInput">>

\* the values one of the optional properties of a ZipManifest has when zipCode is called
DependenciesRoots == {String("dependencies/"), UndefinedValue}
HilCapabilities == {Array(<<"HIL_1pDependency_VersionUpgrade">>), UndefinedValue}

\* new ZipManifest(), or a ZipManifest an earlier zipCode call has changed
ZipManifests ==
    {[class |-> "ZipManifest",
      props |-> [k \in {ZipManifestKeys[i] : i \in 1..Len(ZipManifestKeys)} |->
                    CASE k = "sourcesRoot" -> String("sources/")
                      [] k = "dependenciesRoot" -> d
                      [] k = "buildLogs" -> String("build-logs.txt")
                      [] k = "version" -> String("1.0")
                      [] k = "hilCapabilities" -> h
                      [] k = "transformCapabilities" -> Array(<<"EXPLAINABILITY_V1">>)
                      [] OTHER -> UndefinedValue]] :
        d \in DependenciesRoots, h \in HilCapabilities}

\* new HilZipManifest(hilZipParams)
HilZipManifests ==
    {[class |-> "HilZipManifest",
      props |-> [k \in {HilZipManifestKeys[i] : i \in 1..Len(HilZipManifestKeys)} |->
                    IF k = "hilCapability" THEN String("HIL_1pDependency_VersionUpgrade")
                    ELSE String("pomGroupId")]]}

BuildSystems == {"Maven", "Gradle", "Unknown"}

\* reading a property of an object
Get(object, key) == IF key \in DOMAIN object THEN object[key] ELSE UndefinedValue

\* lines 317-334: the manifest zipCode serializes, for a manifest object, the build system,
\* the dependencies folder ("undefined" when absent) and whether it holds files
PackagedManifest(manifest, system, folder, files) ==
    IF manifest.class # "ZipManifest" THEN manifest.props
    ELSE LET noFiles == folder # "undefined" /\ ~files
             gradle == system = "Gradle"
         IN  [k \in DOMAIN manifest.props |->
                 CASE k = "buildTool" -> String(system)
                   [] k = "dependenciesRoot" ->
                         IF noFiles \/ gradle THEN UndefinedValue ELSE manifest.props[k]
                   [] k = "hilCapabilities" ->
                         IF gradle THEN UndefinedValue ELSE manifest.props[k]
                   [] OTHER -> manifest.props[k]]

RECURSIVE Members(_, _)
\* the members JSON.stringify writes for the properties `keys` of `object`, in order
Members(object, keys) ==
    IF keys = <<>> THEN <<>>
    ELSE IF Get(object, Head(keys)).type = "undefined"
           THEN Members(object, Tail(keys))
           ELSE <<[key |-> Head(keys), value |-> object[Head(keys)]]>> \o Members(object, Tail(keys))

\* the declared order of the properties of an object with the property names `names`
KeysOf(names) ==
    IF names = {HilZipManifestKeys[i] : i \in 1..Len(HilZipManifestKeys)}
      THEN HilZipManifestKeys ELSE ZipManifestKeys

\* variant of JSONstringify: a property whose value is undefined is written as null
JSONstringify_UndefinedAsNull(object) ==
    LET keys == KeysOf(DOMAIN object)
    IN  [i \in 1..Len(keys) |->
            [key |-> keys[i],
             value |-> IF object[keys[i]].type = "undefined"
                         THEN [type |-> "null", v |-> <<>>] ELSE object[keys[i]]]]

\* line 336: JSON.stringify(zipManifest): a property whose value is undefined is left out
JSONstringify(object) == Members(object, KeysOf(DOMAIN object))

\* line 849: JSON.parse(data): an object with the members of the text
JSONparse(text) ==
    [k \in {text[i].key : i \in 1..Len(text)} |->
        (CHOOSE m \in {text[i] : i \in 1..Len(text)} : m.key = k).value]

\* the variables the manifest leaves alone
manFrame ==
    <<tbq, pollRest, ctlVars, jobId, zipVars, apiVars, reasonVars, valVars, buildVars>>

\* lines 268-336: zipCode fills the manifest and adds manifest.json to the archive
ManifestWritten(manifest, system, folder, files) ==
    /\ manPc = "idle"
    /\ folder = "undefined" => ~files
    /\ manPc' = "written"
    /\ manArgs' = [buildSystem |-> system, dependenciesFolder |-> folder, dependencyFiles |-> files]
    /\ zipManifest' = PackagedManifest(manifest, system, folder, files)
    /\ manifestJson' = JSONstringify(PackagedManifest(manifest, system, folder, files))
    /\ UNCHANGED <<loadedManifest, manFrame>>

\* lines 845-854: loadManifestFile reads manifest.json of the extracted archive
LoadManifestFile ==
    /\ manPc = "written"
    /\ manPc' = "loaded"
    /\ loadedManifest' = JSONparse(manifestJson)
    /\ UNCHANGED <<manArgs, zipManifest, manifestJson, manFrame>>

NextManifest ==
    \/ \E manifest \in ZipManifests \cup HilZipManifests, system \in BuildSystems,
          folder \in {"undefined", "dependencies"}, files \in BOOLEAN :
          ManifestWritten(manifest, system, folder, files)
    \/ LoadManifestFile

SpecManifest == Init /\ [][NextManifest]_vars

\* ================================================================== claims
SubProtocolPcs == {"sleep653", "sleep791", "sleep803", "sleep810"}

\* C1: when the k-th status observed by a pollTransformationJob call is in validStates, the
\* call has returned that status after exactly k status calls, the k-1 earlier iterations
\* having each slept one polling interval.
C1_ValidStatusReturned ==
    status \in validStates =>
        /\ pc = "done"
        /\ outcome = "returned"
        /\ getCalls >= 1
        /\ timer = (getCalls - 1) * transformationJobPollingIntervalSeconds

\* C1 witness: the documented example [SUBMITTED, PLANNING, TRANSFORMING, COMPLETED] against
\* validStates = [COMPLETED] has returned COMPLETED after 4 observations.
C1_Witness ==
    /\ pc = "done"
    /\ outcome = "returned"
    /\ validStates = {"COMPLETED"}
    /\ matched = 4
    /\ status = "COMPLETED"
    /\ getCalls = 4
    /\ ~cancelled
    /\ rounds = 0

\* C2: a call whose observed statuses are never valid, paused or failure states and whose
\* job is not cancelled cannot return a status or keep polling past the budget: as soon as
\* the timer exceeds transformationJobTimeoutSeconds it has failed with 'Job timed out'.
C2_TimeoutEndsPolling ==
    /\ timer > transformationJobTimeoutSeconds => pc = "done" /\ outcome = "JobTimedOut"
    /\ timer <= transformationJobTimeoutSeconds + transformationJobPollingIntervalSeconds
    /\ (getCalls - 1) * transformationJobPollingIntervalSeconds <= transformationJobTimeoutSeconds
    /\ outcome = "returned" => status \in validStates \cup pausedStates
    /\ outcome = "JobStoppedError" => status \in failureStates
    /\ outcome = "TransformByQStoppedError" => cancelled
    /\ outcome = "JobTimedOut" => status \notin validStates \cup pausedStates \cup failureStates

\* C2 witness: a call that never saw a terminal status has failed with the timeout error.
C2_Witness ==
    /\ pc = "done"
    /\ outcome = "JobTimedOut"
    /\ ~cancelled
    /\ getCalls = MaxPolls + 1
    /\ timer > transformationJobTimeoutSeconds

\* a local build subprocess (spawnSync) is run for artifact a by this step
BuildStarted(a) ==
    CopiesIn(NewTask("writeLogs", a), tasks') > CopiesIn(NewTask("writeLogs", a), tasks)

\* a callback that has run the local build for artifact a is still in flight
BuildInFlight(a) == \E t \in BagToSet(tasks) : t.artifact = a /\ t.pc # "prompt"

\* C3 (as claimed): a round's client instructions are consumed once: no local build is run
\* for a client-instructions artifact id whose build has already been run and whose result
\* is still being uploaded.
C3_OncePerRound ==
    [][\A a \in ArtifactIds : BuildStarted(a) => ~BuildInFlight(a)]_vars

\* a backend call or a local build subprocess is started by this step
CallStarted ==
    \/ getCalls' = getCalls + 1
    \/ pc = "sleep791" /\ pc' # "sleep791"
    \/ pc = "sleep803" /\ pc' # "sleep803"
    \/ \E a \in ArtifactIds :
          \/ BuildStarted(a)
          \/ CopiesIn(NewTask("awaitCreateUrl", a), tasks') > CopiesIn(NewTask("awaitCreateUrl", a), tasks)
          \/ CopiesIn(NewTask("awaitPut", a), tasks') > CopiesIn(NewTask("awaitPut", a), tasks)
          \/ CopiesIn(NewTask("awaitResume", a), tasks') > CopiesIn(NewTask("awaitResume", a), tasks)

\* C4 (as claimed): once the job is cancelled, no backend call and no local build
\* subprocess is started any more.
C4_NoCallAfterCancel ==
    [][cancelled => ~CallStarted]_vars

\* a status response is processed by this step
Observed == pc = "awaitStatus" /\ pc' # "awaitStatus" /\ outcome' # "GetTransformationError"

\* lines 607-615: this step emits codeTransform_jobStatusChanged
EmitsJobStatusChanged == Observed /\ StatusChanged(status', polledJobStatus)

\* C5 (as claimed): an observation emits the status-change event if and only if its status
\* differs from the status fetched by the previous observation of the job.
C5_EventIffStatusDiffers ==
    [][Observed => (EmitsJobStatusChanged <=> lastFetched' # lastFetched)]_vars

C7_FailureAlwaysThrows ==
    status \in failureStates => pc = "done" /\ outcome = "JobStoppedError"

\* C7 (amended): whenever a status in failureStates that is not in validStates is observed,
\* the call has thrown JobStoppedError carrying the request id of that response, which was
\* recorded as job failure metadata, and it makes no further status call.
C7_FailureNotValidThrows ==
    (status \in failureStates /\ status \notin validStates) =>
        /\ pc = "done"
        /\ outcome = "JobStoppedError"
        /\ errRequestId = LastRequestId
        /\ jobFailureMetadata \in {errRequestId, OtherRequest}

\* C7 witness: the second observation of a call was STOPPED and the call threw.
C7_Witness ==
    /\ pc = "done"
    /\ outcome = "JobStoppedError"
    /\ status = "STOPPED"
    /\ getCalls = 2
    /\ errRequestId = <<"GetTransformation", 2>>
    /\ jobFailureMetadata = errRequestId

\* C8: whenever a status in pausedStates is observed, the call has returned normally with
\* the polled job status set to WaitingUserInput, and no further status call is made
\* unless the caller polls again.
C8_PausedReturns ==
    status \in pausedStates =>
        /\ pc = "done"
        /\ outcome = "returned"
        /\ polledJobStatus = WaitingUserInput

\* C8 witness: a call observed PAUSED in its second iteration and returned.
C8_Witness ==
    /\ status = "PAUSED"
    /\ pc = "done"
    /\ outcome = "returned"
    /\ getCalls = 2
    /\ polledJobStatus = WaitingUserInput

\* the user answers No to the authorization dialog in this step
Declined == \E t \in BagToSet(tasks) : PromptAnswer(t, "No")

\* C9 (as claimed): when the user declines the authorization prompt, the job is stopped and
\* the poll call ends with the 'verification prompt rejected' error.
C9_DeclineIsFatal ==
    [][Declined => cancelled' /\ pc' = "done" /\ outcome' = "VerificationPromptRejected"]_vars

\* the local build, the upload or the resume of a callback fails in this step
BuildStepFailed ==
    /\ ~cancelled
    /\ \E t \in BagToSet(tasks) :
          \/ TaskWriteLogs(t, "null")
          \/ TaskCreateUrlResponse(t, FALSE)
          \/ TaskPutResponse(t, FALSE)
          \/ TaskResumeResponse(t, FALSE)

\* C10 (as claimed): an exception of the local build, the upload or the resume aborts the
\* current poll call with the error raised out of processAwaitingClientActionStatus.
C10_FailureAbortsPoll ==
    [][BuildStepFailed => pc' = "done" /\ outcome' = "ProcessClientInstructionsFailed"]_vars

\* startTransformByQ is invoked by this step
StartInvoked == CopiesIn("start", handlers') > CopiesIn("start", handlers)

\* C11 (as claimed): at most one transformation job is in flight: whatever the order of the
\* UI events, startTransformByQ is invoked only when the job it submits is the only one
\* that is compiling, submitted or polled.
C11_SingleJobInFlight ==
    [][StartInvoked => JobsInFlight = 1]_vars


\* the stop button is handled by this step
StopRequested == stopRequests' = stopRequests + 1

\* the stop phase of a STOP_TRANSFORMATION_JOB handler ends in this step
StopEnded == CopiesIn("stop", handlers') < CopiesIn("stop", handlers)

\* postTransformationJob of a STOP_TRANSFORMATION_JOB handler ends in this step
PostEnded == CopiesIn("post", handlers') < CopiesIn("post", handlers)

FailureHandled ==
    \/ \E r \in ValidationResults \ {"ok"} : ValidateDone(r)
    \/ CompileDone(FALSE)
    \/ \E kind \in ErrorKinds : ErrorThrown(kind)
    \/ HilDone(FALSE)
    \/ HilSelectedDone(FALSE)

\* C13 (as claimed): every failure of a job-affecting operation that reaches the controller
\* leaves the conversation state IDLE.
C13_FailureLeavesIdle ==
    [][FailureHandled => conversationState' = "IDLE"]_vars

\* C13 (amended): a failed local build, a failed upload, a failed job start and a failed HIL
\* resumption without a selection leave the conversation state IDLE; an unset JAVA_HOME
\* found by the validation leaves PROMPT_JAVA_HOME; missing alternate dependency versions
\* leave JOB_SUBMITTED; any other validation failure, a pre-build error, a polling error and
\* a failed HIL resumption with a selected dependency leave the state as it was.
C13_FailureStates ==
    [][/\ CompileDone(FALSE) => conversationState' = "IDLE"
       /\ ErrorThrown("ModuleUploadError") => conversationState' = "IDLE"
       /\ ErrorThrown("JobStartError") => conversationState' = "IDLE"
       /\ HilDone(FALSE) => conversationState' = "IDLE"
       /\ ValidateDone("JavaHomeNotSetError") => conversationState' = "PROMPT_JAVA_HOME"
       /\ ErrorThrown("AlternateDependencyVersionsNotFoundError") =>
             conversationState' = "JOB_SUBMITTED"
       /\ ValidateDone("Error") => conversationState' = conversationState
       /\ ErrorThrown("TransformationPreBuildError") => conversationState' = conversationState
       /\ ErrorThrown("PollJobError") => conversationState' = conversationState
       /\ HilSelectedDone(FALSE) => conversationState' = conversationState]_vars

\* C13 witness: a job was submitted, its validation having failed once before, and the
\* conversation is IDLE again after the job ended.
C13_Witness ==
    /\ raised = "validation"
    /\ conversationState = "IDLE"
    /\ jobId = "job"
    /\ handlers = EmptyBag

\* the local build of a handler fails in this step
CompileFailed == CompileDone(FALSE)

\* C14: when compileProject fails, startTransformByQ is not invoked, the conversation state
\* becomes IDLE and the error is raised again out of the handler, which ends.
C14_CompileFailureStopsFlow ==
    [][CompileFailed =>
          /\ ~StartInvoked
          /\ conversationState' = "IDLE"
          /\ raised' = "compile"
          /\ BagCardinality(handlers') = BagCardinality(handlers) - 1
          /\ JobsInFlight' = JobsInFlight - 1]_vars

\* C14 witness: the only local build of the session failed: the conversation is IDLE, the
\* error was raised, and no job was submitted or uploaded.
C14_Witness ==
    /\ raised = "compile"
    /\ conversationState = "IDLE"
    /\ handlers = EmptyBag
    /\ jobId = ""
    /\ formShown


ZipPath == <<"zipped-code.zip">>
ZipExceedsSizeLimitError == <<"ZipExceedsSizeLimitError">>

\* C15: zipCode returns the archive path exactly when the measured size is at most
\* uploadZipSizeLimitInBytes; a larger archive makes it throw ZipExceedsSizeLimitError,
\* which is not a 'Failed to zip project' error and is thrown for no other reason.
C15_PathIffWithinCeiling ==
    /\ zipSize # -1 =>
          /\ zipPc = "done"
          /\ zipOutcome = ZipPath <=> zipSize <= uploadZipSizeLimitInBytes
          /\ zipOutcome = ZipExceedsSizeLimitError <=> zipSize > uploadZipSizeLimitInBytes
    /\ zipSize = -1 => zipOutcome \notin {ZipPath, ZipExceedsSizeLimitError}
    /\ \A message \in {"TransformByQStoppedError", "Error"} :
          ZipExceedsSizeLimitError # FailedToZip(message)

\* C15 witness: an archive of exactly the ceiling was returned.
C15_Witness ==
    /\ zipPc = "done"
    /\ zipSize = uploadZipSizeLimitInBytes
    /\ zipOutcome = ZipPath

\* the positions of entry `e` in the archive
EntriesNamed(e) == {i \in DOMAIN zipEntries : zipEntries[i] = e}

\* C16: the archive of a successful zipCode call has exactly one manifest.json entry; every
\* file of the trees is below sources or dependencies, and the only other entry is the
\* build log, which is left out of a human-in-the-loop archive.
C16_OneManifest ==
    zipOutcome = ZipPath =>
        /\ Cardinality(EntriesNamed(ManifestEntry)) = 1
        /\ \A i \in DOMAIN zipEntries :
              \/ zipEntries[i] \in {ManifestEntry, LogEntry}
              \/ Len(zipEntries[i]) >= 2 /\ Head(zipEntries[i]) \in {"sources", "dependencies"}
        /\ Cardinality(EntriesNamed(LogEntry)) = IF zipParams.humanInTheLoopFlag THEN 0 ELSE 1

\* C16 witness: a human-in-the-loop archive whose dependency tree has a file named
\* manifest.json was returned.
C16_Witness ==
    /\ zipOutcome = ZipPath
    /\ zipParams.humanInTheLoopFlag
    /\ EntriesNamed(<<"dependencies", "manifest.json">>) # {}
    /\ EntriesNamed(ManifestEntry) # {}

\* zipCode has thrown because the job was cancelled
CancellationDetected ==
    zipPc = "done" /\ zipOutcome = FailedToZip("TransformByQStoppedError")

\* the entries of the archive below `folder`
EntriesBelow(folder) == {i \in DOMAIN zipEntries : Head(zipEntries[i]) = folder}

\* C17 (as claimed): cancellation is checked before starting, after the source walk, after
\* the dependency walk and after the manifest is written: a cancellation before the call or
\* during a walk is detected before the next phase begins.
C17_FourCheckpoints ==
    [][/\ (cancelled /\ zipPc = "idle" /\ zipPc' # "idle") =>
              CancellationDetected' /\ zipEntries' = <<>>
       /\ (cancelled /\ zipPc = "sourceWalk" /\ zipPc' # "sourceWalk") =>
              CancellationDetected' /\ EntriesBelow("dependencies")' = {}
                                    /\ EntriesNamed(ManifestEntry)' = {}
       /\ (cancelled /\ zipPc = "dependencyWalk" /\ zipPc' # "dependencyWalk") =>
              CancellationDetected' /\ EntriesNamed(ManifestEntry)' = {}
       /\ (zipPc # "writeLogs" /\ zipPc' = "writeLogs") => ~cancelled]_vars

\* C17 (amended): cancellation is checked at three points: before starting, after the
\* source walk, and after the manifest is written, which follows the dependency walk
\* without a check in between: a cancellation during the dependency walk is detected when
\* the manifest has been written, before the build log is written.
C17_ThreeCheckpoints ==
    [][/\ (cancelled /\ zipPc = "idle" /\ zipPc' # "idle") =>
              CancellationDetected' /\ zipEntries' = <<>>
       /\ (cancelled /\ zipPc = "sourceWalk" /\ zipPc' # "sourceWalk") =>
              CancellationDetected' /\ EntriesBelow("dependencies")' = {}
                                    /\ EntriesNamed(ManifestEntry)' = {}
       /\ (cancelled /\ zipPc = "dependencyWalk" /\ zipPc' # "dependencyWalk") =>
              CancellationDetected' /\ EntriesNamed(ManifestEntry)' # {}
                                    /\ EntriesNamed(LogEntry)' = {}
       /\ (zipPc # "writeLogs" /\ zipPc' = "writeLogs") => ~cancelled]_vars

\* C17 witness: the job was cancelled during the dependency walk and zipCode has thrown
\* with the manifest written.
C17_Witness ==
    /\ CancellationDetected
    /\ cancelled
    /\ EntriesBelow("dependencies") # {}
    /\ EntriesNamed(ManifestEntry) # {}


\* a step in which the running call sends the request `op`
Requested(op) == apiPc # op /\ apiPc' = op

\* what a wrapper returns when its requests succeeded
Returned == {<<"uploadId">>, <<"transformationJobId">>, <<"transformationStatus">>, <<"undefined">>}

\* C18 (as claimed): once the job is cancelled, uploadPayload asks for no upload slot and
\* starts no transfer of the archive, and a call of uploadPayload that ends without the
\* transfer having started fails and leaves the job id as it was
C18_CancelledBeforeEachCall ==
    [][cancelled =>
         /\ ~Requested("createUploadUrl")
         /\ ~Requested("put")
         /\ (apiOp' = "uploadPayload" /\ apiPc # "put" /\ apiPc' = "done")
              => (apiOutcome' \notin Returned /\ jobId' = jobId)]_vars

\* the message of the Error a wrapper is documented to raise when its request `op` fails
HumanReadable(op, msg) ==
    CASE op \in {"createUploadUrl"} -> Len(msg) = 2 /\ msg[1] = "The upload failed due to: "
      [] op = "put" ->
            \/ Len(msg) = 2 /\ msg[1] = "The upload failed due to: "
            \/ msg \in {<<"errorUploadingWithExpiredUrl">>, <<"socketConnectionFailed">>,
                        <<"selfSignedCertificateError">>}
      [] op = "startTransformation" -> Len(msg) = 2 /\ msg[1] = "Starting the job failed due to: "
      [] op = "resumeTransformation" -> Len(msg) = 2 /\ msg[1] = "Resuming the job failed due to: "
      [] OTHER -> msg = <<"Stop job failed">>

\* C19: a call of a wrapper sends each of its requests at most once, and when a request
\* fails the call ends at once, without another request, with an Error that carries the
\* wrapper's message for that request
C19_WrappedNeverRetried ==
    [][\A op \in BackendOps :
         /\ attempts'[op] <= 1
         /\ (apiPc = op /\ apiOutcome' \notin Returned \cup {<<"none">>, <<"TransformByQStoppedError">>})
              => /\ apiPc' = "done"
                 /\ attempts[op] = 1
                 /\ attempts' = attempts
                 /\ HumanReadable(op, apiOutcome')]_vars

\* every request has failed once: each wrapper raised its message after one attempt
C19_Witness ==
    /\ apiPc = "done"
    /\ apiOp = "startJob"
    /\ attempts = [NoAttempts EXCEPT !["startTransformation"] = 1]
    /\ apiOutcome = <<"Starting the job failed due to: ", "Service unavailable">>


\* C20: after a status response with a reason text, the stored chat message and notification
\* are the monthly-limit messages when the text contains 'Monthly aggregated Lines of Code
\* limit breached'; otherwise the lines-limit messages when it contains 'Lines of Code limit
\* breached for job'; otherwise the generic failure message, a space and the reason text
C20_ReasonClassified ==
    reason.defined =>
        IF includes(reason.text, MonthlyLimitBreached)
          THEN /\ jobFailureErrorChatMessage = <<"failedToStartJobMonthlyLimitChatMessage">>
               /\ jobFailureErrorNotification = <<"failedToStartJobMonthlyLimitNotification">>
        ELSE IF includes(reason.text, JobLimitBreached)
          THEN /\ jobFailureErrorChatMessage = <<"failedToStartJobLinesLimitChatMessage">>
               /\ jobFailureErrorNotification = <<"failedToStartJobLinesLimitNotification">>
        ELSE /\ jobFailureErrorChatMessage
                    = <<"failedToCompleteJobGenericChatMessage", " ">> \o reason.text
             /\ jobFailureErrorNotification
                    = <<"failedToCompleteJobGenericNotification", " ">> \o reason.text

\* a reason text that contains both phrases was stored as the monthly limit
C20_Witness ==
    /\ reason.defined
    /\ reason.text = <<"Monthly aggregated", "Lines of Code limit breached", "for job">>
    /\ jobFailureErrorChatMessage = <<"failedToStartJobMonthlyLimitChatMessage">>
    /\ jobFailureErrorNotification = <<"failedToStartJobMonthlyLimitNotification">>

\* the validation of the workspace folders has ended
Validated == valPc = "done" /\ workspaceFolders.defined

\* C21: when no open project holds a .java file, validateOpenProjects fails with
\* NoJavaProjectsFoundError, whether or not a project holds a build descriptor
C21_JavaFilesCheckedFirst ==
    (Validated /\ \A i \in 1..Len(workspaceFolders.list) : ~workspaceFolders.list[i].java)
        => valOutcome = "NoJavaProjectsFoundError"

\* two projects without a .java file, one of them with a build descriptor, were validated
C21_Witness ==
    /\ Validated
    /\ Len(workspaceFolders.list) = 2
    /\ \A i \in 1..2 : ~workspaceFolders.list[i].java
    /\ workspaceFolders.list[1].build
    /\ ~workspaceFolders.list[2].build
    /\ valOutcome = "NoJavaProjectsFoundError"

\* C22 (as claimed): when the list of workspace folders is undefined or empty, the validation
\* of the open projects ends with NoOpenProjectsError
C22_NoFoldersNoOpenProjects ==
    (valPc = "done" /\ (~workspaceFolders.defined \/ workspaceFolders.list = <<>>))
        => valOutcome = "NoOpenProjectsError"

\* the folders that hold a .java file and a build descriptor
ValidFolders ==
    {i \in 1..Len(workspaceFolders.list) :
        workspaceFolders.list[i].java /\ workspaceFolders.list[i].build}

\* C23: when some project holds a .java file and a build descriptor, validateOpenProjects
\* returns exactly those projects, in the order of the input, whatever the probe of their
\* .class file gives; without a .class file or with a failing javap run the JDKVersion is
\* undefined, with an unrecognised major version it is UNSUPPORTED
C23_DetectionNeverBlocks ==
    (Validated /\ ValidFolders # {}) =>
        /\ valOutcome = "returned"
        /\ Len(validProjects) = Cardinality(ValidFolders)
        /\ \A k \in 1..Len(validProjects) :
              /\ validProjects[k].name \in ValidFolders
              /\ validProjects[k].path = workspaceFolders.list[validProjects[k].name]
              /\ k > 1 => validProjects[k - 1].name < validProjects[k].name
              /\ LET probe == validProjects[k].path.probe
                     version == validProjects[k].JDKVersion
                 IN  /\ probe \in {"noClass", "JavapSpawnError", "JavapExecutionError"}
                          => version = "undefined"
                     /\ probe = "52" => version = "JDK8"
                     /\ probe = "55" => version = "JDK11"
                     /\ probe \in {"61", ""} => version = "UNSUPPORTED"

\* two projects were returned, one whose javap run failed and one with an unrecognised
\* major version
C23_Witness ==
    /\ valOutcome = "returned"
    /\ Len(validProjects) = 2
    /\ validProjects[1].path.probe = "JavapExecutionError"
    /\ validProjects[1].JDKVersion = "undefined"
    /\ validProjects[2].path.probe = "61"
    /\ validProjects[2].JDKVersion = "UNSUPPORTED"

\* the running or last local build has run the command
HasRun(command) == \E i \in 1..Len(buildRuns) : buildRuns[i] = command

\* C24: prepareMavenProjectDependencies always runs clean install, also after a failed
\* copy-dependencies; a failed clean install ends the operation with its error once the
\* build log is shown; when clean install succeeds the operation succeeds unless the job
\* was cancelled
C24_OnlyInstallIsFatal ==
    (buildSystem = "Maven" /\ buildPc \in {"log", "done"}) =>
        /\ HasRun("clean install")
        /\ buildPc = "done" =>
              /\ "clean install" \in buildFailed
                    => (buildOutcome = MavenInstallError /\ "build-logs.txt" \in buildNotices)
              /\ "clean install" \notin buildFailed
                    => buildOutcome \in {"succeeded", "TransformByQStoppedError"}
              /\ ~cancelled => (buildOutcome = "succeeded" <=> "clean install" \notin buildFailed)

\* copy-dependencies failed, clean install succeeded and so did the operation
C24_Witness ==
    /\ buildSystem = "Maven"
    /\ buildPc = "done"
    /\ buildFailed = {"copy-dependencies"}
    /\ buildRuns = <<"copy-dependencies", "clean install">>
    /\ buildOutcome = "succeeded"

\* no probed interpreter name ran successfully
NoPythonRuns == \A i \in 1..Len(pythonExecutables) : pythonExecutables[i] \in buildFailed

\* C25: when none of python, python3, py and py3 runs, prepareGradleProjectDependencies
\* fails with the 'No Python executable found' error without having run gradle wrapper or
\* gradle_copy_deps.py; that error is raised in no other case, and the errors 'Failed to
\* create Gradle wrapper' and 'gradle_copy_deps.py failed' are raised only when that tool
\* ran and failed
C25_ToolMissingIsNotToolFailed ==
    (buildSystem = "Gradle" /\ buildPc \in {"log", "done"}) =>
        /\ NoPythonRuns =>
              /\ buildErr = NoPythonError
              /\ ~HasRun("gradle wrapper")
              /\ ~HasRun("gradle_copy_deps.py")
              /\ buildPc = "done" => buildOutcome = NoPythonError
        /\ buildErr = NoPythonError => NoPythonRuns
        /\ buildErr = GradleWrapperError => "gradle wrapper" \in buildFailed
        /\ buildErr = GradleCopyDepsError => "gradle_copy_deps.py" \in buildFailed
        /\ buildErr = "none" => buildFailed \cap {"gradle wrapper", "gradle_copy_deps.py"} = {}

\* the four names were probed, none ran, and the operation failed for want of an interpreter
C25_Witness ==
    /\ buildSystem = "Gradle"
    /\ buildPc = "done"
    /\ buildRuns = pythonExecutables
    /\ NoPythonRuns
    /\ buildOutcome = NoPythonError

PromptsOpen ==
    BagCardinality([t \in {u \in BagToSet(tasks) : u.pc = "prompt"} |-> CopiesIn(t, tasks)])

\* a status response with a plan-generated status is processed by this step
ObservedPlanGenerated == Observed /\ status' \in validStatesForPlanGenerated

\* C27 (as claimed): while the authorization of a client-side build is pending, an iteration
\* that observes a plan-generated status does not invoke the AWAITING_CLIENT_ACTION
\* sub-protocol, so at most one authorization dialog is open; when no authorization is
\* pending, every such iteration invokes the sub-protocol once.
C27_InvokedIffNotWaiting ==
    [][/\ ObservedPlanGenerated => (pc' = "sleep653" <=> ~waitingAuth)
       /\ pc = "sleep653" /\ pc' # "sleep653" => invoked' = 1
       /\ PromptsOpen' <= 1]_vars

\* C27 (amended): while the authorization is pending, an iteration that observes a
\* plan-generated status does not invoke the sub-protocol, so at most one authorization
\* dialog is open; when no authorization is pending, every such iteration whose status is
\* not in validStates invokes the sub-protocol once.
C27_InvokedIffNotWaitingNotValid ==
    [][/\ ObservedPlanGenerated =>
             (pc' = "sleep653" <=> ~waitingAuth /\ status' \notin validStates)
       /\ pc = "sleep653" /\ pc' # "sleep653" => invoked' = 1
       /\ PromptsOpen' <= 1
       /\ PromptsOpen' = 1 => waitingAuth']_vars

\* C27 witness: the authorization dialog of a round is open and a later iteration of the
\* call observed TRANSFORMING without invoking the sub-protocol.
C27_Witness ==
    /\ waitingAuth
    /\ PromptsOpen = 1
    /\ status = "TRANSFORMING"
    /\ status \notin validStates
    /\ getCalls = 2
    /\ invoked = 0
    /\ pc = "sleep672"

\* a callback of the build round of artifact a suspends at p in this step
Reaches(p, a) == CopiesIn(NewTask(p, a), tasks') > CopiesIn(NewTask(p, a), tasks)

\* a callback of the build round of artifact a that was suspended at p goes on in this step
Leaves(p, a) == CopiesIn(NewTask(p, a), tasks') < CopiesIn(NewTask(p, a), tasks)

\* C28: in a client-side build round the result archive is uploaded before the job is
\* resumed, and the resume call is sent only when the upload succeeded: a callback asks for
\* the upload URL only after its build, transfers the archive only after it got the URL, and
\* sends resume only after its transfer, exactly when the transfer succeeded; the backend
\* leaves the round only through a resume call. Every non-null exit code, of a passing or a
\* failing build, starts the upload unless the job was cancelled; a null exit code ends
\* the callback with neither upload nor resume.
C28_UploadBeforeResume ==
    [][/\ \A a \in ArtifactIds : (hilArtifact = a /\ hilArtifact' = 0) => Leaves("awaitResume", a)
       /\ tasks' # tasks =>
             /\ \A a \in ArtifactIds :
                   /\ Reaches("awaitCreateUrl", a) => Leaves("writeLogs", a)
                   /\ Reaches("awaitPut", a) => Leaves("awaitCreateUrl", a)
                   /\ Reaches("awaitResume", a) => Leaves("awaitPut", a)
             /\ \A t \in BagToSet(tasks) :
                   /\ t.pc = "writeLogs" =>
                         \A e \in ExitCodes :
                            TaskWriteLogs(t, e) =>
                               IF e = "null" \/ cancelled
                                 THEN TaskEnds(t)
                                 ELSE Reaches("awaitCreateUrl", t.artifact)
                   /\ t.pc = "awaitPut" =>
                         \A putOk \in BOOLEAN :
                            TaskPutResponse(t, putOk) =>
                               (Reaches("awaitResume", t.artifact) <=> putOk)]_vars

\* C28 witness: the result archive of the pending round was transferred and the resume call
\* of that round is in flight.
C28_Witness ==
    /\ hilArtifact # 0
    /\ BagIn(NewTask("awaitResume", hilArtifact), tasks)
    /\ ~cancelled

\* the progress updates of a plan that await the client action with a client-instructions
\* download artifact
PendingClientInstructions(plan) ==
    {i \in DOMAIN plan : /\ plan[i].status = AwaitingClientAction
                         /\ plan[i].artifactType = ClientInstructions
                         /\ plan[i].artifactId # 0}

\* C29 (as claimed): whenever a progress update of the fetched plan awaits the client action
\* with a client-instructions download artifact, the sub-protocol locates that update and
\* goes on with its artifact id, whatever download artifacts other progress updates carry.
C29_PendingUpdateFound ==
    [][\A plan \in Plans(hilArtifact) :
          GetClientInstructionArtifactId(plan) =>
             \A i \in PendingClientInstructions(plan) :
                pc' = "sleep803" /\ artifactId' = plan[i].artifactId]_vars

\* the running poll call ends in this step
PollEnds == pc # "done" /\ pc' = "done"

\* C30 (as claimed): the cancellation flag is checked at the start of every iteration, before
\* the status is fetched: once the flag is set, the loop issues no further status call, and
\* the call neither returns a status nor times out.
C30_CancelledNeverReturns ==
    [][cancelled =>
          /\ getCalls' <= getCalls
          /\ PollEnds => outcome' \notin {"returned", "JobTimedOut"}]_vars

\* the commands a local build runs when none of them fails
AllCommandsRun(system) ==
    IF system = "Maven" THEN {"copy-dependencies", "clean install"} ELSE {"gradle_copy_deps.py"}

\* a local build is made in this step although the job is cancelled, and its last command
\* is run
BuildRunsCancelled ==
    /\ cancelled
    /\ \/ \E copyOk \in BOOLEAN, installOk \in BOOLEAN :
             PrepareMavenProjectDependencies(copyOk, installOk)
       \/ \E working \in SUBSET {pythonExecutables[i] : i \in 1..Len(pythonExecutables)},
             command \in GradleCommands, scriptOk \in BOOLEAN :
             /\ working # {}
             /\ PrepareGradleProjectDependencies(working, command, TRUE, scriptOk)

ContinuesWithoutHIL ==
    \/ DependencyFormClicked(FALSE)
    \/ ErrorThrown("AlternateDependencyVersionsNotFoundError")

\* C32: cancelling the dependency form and the error of missing alternate dependency
\* versions both resume the job without a selection: the conversation state becomes
\* JOB_SUBMITTED and finishHumanInTheLoop is called without a selected version; when that
\* call fails, the conversation is reset to IDLE and the message of the error is shown as the
\* job-finished message.
C32_ResumesWithoutSelection ==
    [][/\ ContinuesWithoutHIL =>
             /\ conversationState' = "JOB_SUBMITTED"
             /\ CopiesIn("hil", handlers') = CopiesIn("hil", handlers) + 1
             /\ CopiesIn("hilSelected", handlers') = CopiesIn("hilSelected", handlers)
       /\ HilDone(FALSE) =>
             /\ conversationState' = "IDLE"
             /\ hilFailureMessage' = HilResumeError
             /\ CopiesIn("hil", handlers') = CopiesIn("hil", handlers) - 1]_vars

\* C32 witness: the resumption without a selection failed: its error message is shown as the
\* job-finished message, the conversation is IDLE and the job is still running.
C32_Witness ==
    /\ hilFailureMessage = HilResumeError
    /\ conversationState = "IDLE"
    /\ BagIn("start", handlers)
    /\ ~BagIn("hil", handlers)

\* the progress message of a job that is running in conversation state cs
ProgressMessage(cs) == IF cs = "JOB_SUBMITTED" THEN "job-submitted" ELSE "compilation-in-progress"

\* a transform request leaves the conversation state, the project form and the handlers alone
TransformRequestFrame ==
    /\ conversationState' = conversationState
    /\ formShown' = formShown
    /\ handlers' = handlers

UploadEnds == apiOp = "uploadPayload" /\ apiPc # "done" /\ apiPc' = "done"

\* C34: uploadPayload sets the job id, to the encoded upload id createUploadUrl returned, only
\* when it was called without an uploadContext and only in the step in which the transfer to
\* S3 succeeds, after createUploadUrl succeeded; an upload with an uploadContext and an
\* upload that fails leave the job id as it was.
C34_JobIdSetByInitialUpload ==
    [][/\ jobId' # jobId =>
             /\ UploadEnds
             /\ apiPc = "put"
             /\ ~uploadContext
             /\ uploadId \in UploadIds
       /\ UploadEnds =>
             jobId' = IF ~uploadContext /\ apiPc = "put" /\ apiOutcome' = <<"uploadId">>
                        THEN encodeHTML(uploadId)
                        ELSE jobId]_vars

\* C34 witness: after the initial upload set the job id, an upload with an uploadContext
\* succeeded with another upload id and the job id is still that of the initial upload.
C34_Witness ==
    /\ apiOp = "uploadPayload"
    /\ apiPc = "done"
    /\ apiOutcome = <<"uploadId">>
    /\ uploadContext
    /\ uploadId = "upload<2>"
    /\ jobId = encodeHTML("upload-1")

\* C35: a status that is both in validStates and a failure status ends the call in the
\* iteration that observed it, by a normal return: no JobStoppedError is thrown, no request
\* id is recorded for one, and the client-action sub-protocol is not run in that iteration.
C35_ValidBeforeFailure ==
    (status \in validStates /\ status \in {"FAILED", "STOPPED"}) =>
        /\ pc = "done"
        /\ outcome = "returned"
        /\ polledJobStatus = status
        /\ errRequestId = NoRequest
        /\ invoked = 0

\* C35 witness: a poll with the download-check states observed a job in progress, slept, and
\* then returned the status STOPPED
C35_Witness ==
    /\ validStates = validStatesForCheckingDownloadUrl
    /\ status = "STOPPED"
    /\ outcome = "returned"
    /\ getCalls = 2
    /\ timer = transformationJobPollingIntervalSeconds

\* the positions of a poll iteration between its status request and the end of its sleep,
\* the client-action sub-protocol included
InIteration ==
    pc \in {"awaitStatus", "sleep653", "sleep791", "sleep803", "sleep810", "sleep672"}

\* C36: the timer of a call is the polling interval times the number of its completed
\* iterations, whatever the sub-protocol did in them; the call throws 'Job timed out' with
\* the first timer value strictly greater than transformationJobTimeoutSeconds, and so it
\* observes the status at most floor(timeout / interval) + 1 times.
C36_TimerCountsIterations ==
    /\ getCalls <= (transformationJobTimeoutSeconds \div transformationJobPollingIntervalSeconds) + 1
    /\ InIteration =>
          /\ timer = transformationJobPollingIntervalSeconds * (getCalls - 1)
          /\ timer <= transformationJobTimeoutSeconds
    /\ pc = "loopTop" =>
          /\ timer = transformationJobPollingIntervalSeconds * getCalls
          /\ timer <= transformationJobTimeoutSeconds
    /\ outcome = "JobTimedOut" =>
          /\ pc = "done"
          /\ timer = transformationJobPollingIntervalSeconds * getCalls
          /\ timer > transformationJobTimeoutSeconds
          /\ timer - transformationJobPollingIntervalSeconds <= transformationJobTimeoutSeconds
    /\ (pc = "done" /\ outcome # "JobTimedOut") =>
          timer \in {transformationJobPollingIntervalSeconds * (getCalls - 1),
                     transformationJobPollingIntervalSeconds * getCalls}

\* C36 witness: a call timed out after floor(timeout / interval) + 1 observations, and its
\* last iteration ran the client-action sub-protocol
C36_Witness ==
    /\ outcome = "JobTimedOut"
    /\ invoked = 1
    /\ getCalls = (transformationJobTimeoutSeconds \div transformationJobPollingIntervalSeconds) + 1
    /\ timer = transformationJobTimeoutSeconds + transformationJobPollingIntervalSeconds

\* C37 (as claimed): the authorization-pending flag is always eventually cleared, so the
\* program never comes to rest while the flag is set: as long as the flag is set, a step
\* remains possible.
C37_PendingFlagNeverStuck ==
    waitingAuth => ENABLED Next

\* a checkpoint of zipCode sees the cancellation in this step and the call ends
CheckpointSeesCancellation ==
    /\ cancelled
    /\ zipPc \in {"idle", "sourceWalk", "dependencyWalk"}
    /\ zipPc' = "done"

\* C38 (as claimed): a cancellation that a checkpoint of zipCode detects reaches the caller
\* as a TransformByQStoppedError, which is not the generic error of a failed packaging, and
\* no archive path is returned.
C38_CancellationKeepsKind ==
    [][CheckpointSeesCancellation =>
          /\ zipOutcome' = <<"TransformByQStoppedError">>
          /\ zipOutcome' # ZipPath]_vars

====
